---- MODULE Spec2Model ----
(***************************************************************************)
(* py-pdf-parser: PDFDocument / PDFElement / ElementList / Sectioning.     *)
(*                                                                         *)
(* Elements are identified by (document, _index).  An ElementList is the   *)
(* pair (document, frozenset of indexes).  Coordinates of every            *)
(* BoundingBox of the model are stored doubled, so that the halved extent  *)
(* used to cap a tolerance stays an integer.                               *)
(***************************************************************************)
EXTENDS Integers, Sequences, FiniteSets, TLC

(***************************************************************************)
(* Bounds                                                                  *)
(***************************************************************************)
\* number of elements of the first document
DocLen == 3
\* number of ElementLists the caller keeps a reference to
MaxLists == 1
\* number of create_section calls
MaxSections == 2
\* largest |count| passed to move_forwards_from / move_backwards_from
MaxCount == 2
\* largest tolerance passed to a spatial filter
MaxTolerance == 1
\* number of elements ignored while sections are registered (SpecSec)
MaxIgnored == 1

(***************************************************************************)
(* The documents the program has built (the loader's output, fixed).       *)
(***************************************************************************)
\* two documents, so that state shared between documents shows
Docs == {1, 2}

\* a third document, which tables are read from: its elements are not fixed
\* here but drawn when a behaviour starts
TableDocument == 3

VARIABLE
  element_list              \* PDFDocument._element_list of the table document

\* the second document is one element shorter than the first
NumElements(d) ==
  IF d = 1 THEN DocLen ELSE IF d = 2 THEN DocLen - 1 ELSE Len(element_list)

\* range(0, len(document._element_list))
Indexes(d) == 0 .. (NumElements(d) - 1)

\* document 1 puts two elements on a page, pages 1, 2, ...;
\* document 2 puts one element on a page, pages 1, 3, ... (page 2 excluded)
page_number(d, i) ==
  IF d = 1 THEN (i \div 2) + 1
  ELSE IF d = 2 THEN 2 * i + 1
  ELSE element_list[i + 1].page_number

page_numbers(d) == {page_number(d, i) : i \in Indexes(d)}

\* every Page of the loader is 10 x 10 (doubled: 20 x 20)
page_width(d, p) == 20

page_height(d, p) == 20

Min(a, b) == IF a <= b THEN a ELSE b

Max(a, b) == IF a >= b THEN a ELSE b

\* common.BoundingBox: construction fails when x1 < x0 or y1 < y0
BoundingBox(x0, x1, y0, y1) ==
  IF x1 < x0 \/ y1 < y0
    THEN [err |-> "InvalidCoordinatesError", x0 |-> 0, x1 |-> 0, y0 |-> 0, y1 |-> 0,
          width |-> 0, height |-> 0]
    ELSE [err |-> "none", x0 |-> x0, x1 |-> x1, y0 |-> y0, y1 |-> y1,
          width |-> x1 - x0, height |-> y1 - y0]

\* PDFElement.bounding_box: column c of the page sits at x in [4c, 4c+3] and
\* y in [5-c, 8-c], so neighbours of one page overlap vertically by 2
bounding_box(d, i) ==
  LET c == IF d = 1 THEN i % 2 ELSE 0
  IN  IF d = TableDocument THEN element_list[i + 1].bounding_box
      ELSE BoundingBox(2 * (4 * c), 2 * (4 * c + 3), 2 * (5 - c), 2 * (8 - c))

\* PDFElement.font (the combined key "name,size")
Fonts == {"f1", "f2", "f3"}

font(d, i) == IF i % 2 = 0 THEN "f1" ELSE "f2"

\* PDFElement.text(): texts are sequences of characters
text(d, i) == IF i % 2 = 0 THEN <<"a", "b", " ">> ELSE <<"b">>

Tags == {"t"}

(***************************************************************************)
(* State                                                                   *)
(***************************************************************************)
VARIABLES
  ignored_indexes,          \* PDFDocument._ignored_indexes, per document
  tags,                     \* PDFElement.tags, per document and element
  element_indexes_by_font,  \* PDFDocument._element_indexes_by_font, per document
  name_counts,              \* Sectioning.name_counts (class attribute)
  sections_dict,            \* Sectioning.sections_dict (class attribute)
  lists,                    \* the ElementLists the caller holds
  last                      \* the last call: operation, receiver, arguments, outcome

vars == <<element_list, ignored_indexes, tags, element_indexes_by_font,
          name_counts, sections_dict, lists, last>>

(***************************************************************************)
(* Outcomes of a call                                                      *)
(***************************************************************************)
NoElement == 0 - 1

\* the call returned an ElementList with this index set
Ok(S) == [err |-> "none", indexes |-> S, element |-> NoElement]

\* the call returned this element
OkElement(i) == [err |-> "none", indexes |-> {}, element |-> i]

\* the call raised
Raise(e) == [err |-> e, indexes |-> {}, element |-> NoElement]

\* a call returning a truth value
OkBool(b) == [err |-> "none", indexes |-> {}, element |-> NoElement, value |-> b]

(***************************************************************************)
(* ElementList                                                             *)
(***************************************************************************)
\* ElementList.__init__ without the subtraction of the ignored indexes
ElementList_keeps_ignored(d, indexes) == indexes

\* ElementList.__init__(document, indexes): the ignored indexes are subtracted
ElementList(d, indexes) == indexes \ ignored_indexes[d]

\* PDFDocument.elements
elements(d) == ElementList(d, Indexes(d))

\* ElementList.__and__
And(d, S, T) == ElementList(d, S \cap T)

\* ElementList.__or__ returning the right operand alone
Or_right_only(d, S, T) == T \ ignored_indexes[d]

\* ElementList.__or__
Or(d, S, T) == ElementList(d, S \cup T)

\* ElementList.__sub__
Sub(d, S, T) == ElementList(d, S \ T)

\* ElementList.__xor__
Xor(d, S, T) == ElementList(d, (S \ T) \cup (T \ S))

\* ElementList.__intersect_indexes_with_self without the intersection
intersect_without_self(d, S, new_indexes) == new_indexes \ ignored_indexes[d]

\* ElementList.__intersect_indexes_with_self
intersect_indexes_with_self(d, S, new_indexes) == And(d, S, ElementList(d, new_indexes))

(***************************************************************************)
(* Attribute filters                                                       *)
(***************************************************************************)
\* ElementList.filter_by_tag
filter_by_tag(d, S, tag) == Ok(ElementList(d, {i \in S : tag \in tags[d][i]}))

\* ElementList.filter_by_tags
filter_by_tags(d, S, ts) ==
  Ok(ElementList(d, {i \in S : \E tag \in ts : tag \in tags[d][i]}))

\* str.strip() on a sequence of characters
RECURSIVE LStrip(_)
LStrip(s) == IF s # <<>> /\ Head(s) = " " THEN LStrip(Tail(s)) ELSE s

RECURSIVE RStrip(_)
RStrip(s) ==
  IF s # <<>> /\ s[Len(s)] = " " THEN RStrip(SubSeq(s, 1, Len(s) - 1)) ELSE s

Strip(s) == RStrip(LStrip(s))

\* PDFElement.text(stripped)
element_text(d, i, stripped) == IF stripped THEN Strip(text(d, i)) ELSE text(d, i)

\* ElementList.filter_by_text_equal
filter_by_text_equal(d, S, txt, stripped) ==
  Ok(ElementList(d, {i \in S : element_text(d, i, stripped) = txt}))

\* Python's `text in s` on sequences of characters
Contains(s, txt) ==
  \E k \in 0 .. (Len(s) - Len(txt)) : SubSeq(s, k + 1, k + Len(txt)) = txt

\* ElementList.filter_by_text_contains
filter_by_text_contains(d, S, txt) ==
  Ok(ElementList(d, {i \in S : Contains(element_text(d, i, TRUE), txt)}))

\* re.match for a pattern without metacharacters: the text starts with it
ReMatch(regex, s) == Len(regex) <= Len(s) /\ SubSeq(s, 1, Len(regex)) = regex

\* ElementList.filter_by_regex
filter_by_regex(d, S, regex, stripped) ==
  Ok(ElementList(d, {i \in S : ReMatch(regex, element_text(d, i, stripped))}))

\* PDFDocument._element_indexes_with_fonts: the fonts not yet cached
non_cached_fonts(d, fs) == {f \in fs : f \notin DOMAIN element_indexes_by_font[d]}

\* PDFDocument._element_indexes_with_fonts: the cache after the call; a pass over
\* _element_list adds the index of every element whose font is a non cached one
cache_after(d, fs) ==
  LET cache == element_indexes_by_font[d]
      found == {f \in non_cached_fonts(d, fs) : \E i \in Indexes(d) : font(d, i) = f}
  IN  [f \in (DOMAIN cache) \cup found |->
         IF f \in DOMAIN cache THEN cache[f] ELSE {i \in Indexes(d) : font(d, i) = f}]

\* PDFDocument._element_indexes_with_fonts: the returned indexes
element_indexes_with_fonts(d, fs) ==
  LET cache == cache_after(d, fs)
  IN  UNION {cache[f] : f \in (DOMAIN cache) \cap fs}

\* the cached indexes met with the receiver, ignored elements kept
cached_indexes_of_fonts(d, S, fs) == Ok(S \cap element_indexes_with_fonts(d, fs))

\* ElementList.filter_by_fonts (filter_by_font passes one font)
filter_by_fonts(d, S, fs) == Ok(ElementList(d, S \cap element_indexes_with_fonts(d, fs)))

\* PDFPage.start_element / end_element as indexes
page_start(d, p) == CHOOSE i \in Indexes(d) :
  page_number(d, i) = p /\ \A j \in Indexes(d) : page_number(d, j) = p => i <= j

page_end(d, p) == CHOOSE i \in Indexes(d) :
  page_number(d, i) = p /\ \A j \in Indexes(d) : page_number(d, j) = p => i >= j

(***************************************************************************)
(* Order filters                                                           *)
(***************************************************************************)
\* ElementList.before: set(range(0, element._index))
before(d, S, x, inclusive) ==
  Ok(intersect_indexes_with_self(d, S,
       (0 .. (x - 1)) \cup (IF inclusive THEN {x} ELSE {})))

SetMax(S) == CHOOSE m \in S : \A k \in S : k <= m

SetMin(S) == CHOOSE m \in S : \A k \in S : k >= m

\* ElementList.after: set(range(element._index + 1, max(self.indexes) + 1));
\* max() of an empty set raises ValueError
after(d, S, x, inclusive) ==
  IF S = {}
    THEN Raise("ValueError")
    ELSE Ok(intersect_indexes_with_self(d, S,
              ((x + 1) .. SetMax(S)) \cup (IF inclusive THEN {x} ELSE {})))

\* ElementList.between: set(range(start._index + 1, end._index))
between(d, S, x, y, inclusive) ==
  Ok(intersect_indexes_with_self(d, S,
       ((x + 1) .. (y - 1)) \cup (IF inclusive THEN {x, y} ELSE {})))

\* PDFPage.elements: document.elements.between(start, end, inclusive=True)
page_elements(d, p) ==
  between(d, elements(d), page_start(d, p), page_end(d, p), TRUE).indexes

\* ElementList.filter_by_page; get_page raises PageNotFoundError
filter_by_page(d, S, p) ==
  IF p \notin page_numbers(d)
    THEN Raise("PageNotFoundError")
    ELSE Ok(intersect_indexes_with_self(d, S, page_elements(d, p)))

\* ElementList.filter_by_pages
filter_by_pages(d, S, ps) ==
  IF \E p \in ps : p \notin page_numbers(d)
    THEN Raise("PageNotFoundError")
    ELSE Ok(intersect_indexes_with_self(d, S, UNION {page_elements(d, p) : p \in ps}))

\* PDFElement.partially_within with strict comparisons: boxes that only touch
\* do not count
box_partially_within_strict(e, bb) ==
  bb.x0 < e.x1 /\ bb.x1 > e.x0 /\ bb.y0 < e.y1 /\ bb.y1 > e.y0

\* PDFElement.partially_within, for an element whose bounding box is e
box_partially_within(e, bb) ==
  bb.x0 <= e.x1 /\ bb.x1 >= e.x0 /\ bb.y0 <= e.y1 /\ bb.y1 >= e.y0

\* PDFElement.entirely_within, for an element whose bounding box is e
box_entirely_within(e, bb) ==
  e.x0 >= bb.x0 /\ e.x1 <= bb.x1 /\ e.y0 >= bb.y0 /\ e.y1 <= bb.y1

(***************************************************************************)
(* Geometric predicates and spatial filters                                *)
(***************************************************************************)
\* PDFElement.partially_within
partially_within(d, i, bb) == box_partially_within(bounding_box(d, i), bb)

\* PDFElement.entirely_within
entirely_within(d, i, bb) == box_entirely_within(bounding_box(d, i), bb)

\* ElementList.remove_element
remove_element(d, S, x) == Ok(ElementList(d, S \ {x}))

\* ElementList.remove_elements
remove_elements(d, S, xs) == Ok(ElementList(d, S \ xs))

\* ElementList.add_element adding to the index set without a new ElementList
add_element_in_place(d, S, x) ==
  [err |-> "none", indexes |-> S \cup {x}, element |-> 0 - 1]

\* ElementList.add_element
add_element(d, S, x) == Ok(ElementList(d, S \cup {x}))

\* ElementList.add_elements
add_elements(d, S, xs) == Ok(ElementList(d, S \cup xs))

\* ElementList.filter_partially_within_bounding_box
filter_partially_within_bounding_box(d, S, bb, p) ==
  LET on_page == filter_by_page(d, S, p)
  IN  IF bb.err # "none" THEN Raise(bb.err)
      ELSE IF on_page.err # "none" THEN on_page
      ELSE Ok(intersect_indexes_with_self(d, S,
                {i \in on_page.indexes : partially_within(d, i, bb)}))

\* the tail of the spatial filters without the removal of the element
results_as_filtered(d, results, x, inclusive) == results

\* the tail shared by the spatial filters: drop the element unless inclusive
unless_inclusive(d, results, x, inclusive) ==
  IF results.err # "none" \/ inclusive THEN results
  ELSE remove_element(d, results.indexes, x)

\* min(extent / 2, tolerance) in doubled coordinates
capped_tolerance(extent, tolerance) == Min(extent \div 2, 2 * tolerance)

\* ElementList.to_the_right_of
to_the_right_of(d, S, x, inclusive, tolerance) ==
  LET e == bounding_box(d, x)
      p == page_number(d, x)
      t == capped_tolerance(e.height, tolerance)
      bb == BoundingBox(e.x1, page_width(d, p), e.y0 + t, e.y1 - t)
  IN  unless_inclusive(d, filter_partially_within_bounding_box(d, S, bb, p), x, inclusive)

\* ElementList.to_the_left_of
to_the_left_of(d, S, x, inclusive, tolerance) ==
  LET e == bounding_box(d, x)
      p == page_number(d, x)
      t == capped_tolerance(e.height, tolerance)
      bb == BoundingBox(0, e.x0, e.y0 + t, e.y1 - t)
  IN  unless_inclusive(d, filter_partially_within_bounding_box(d, S, bb, p), x, inclusive)

\* ElementList.horizontally_in_line_with
horizontally_in_line_with(d, S, x, inclusive, tolerance) ==
  LET e == bounding_box(d, x)
      p == page_number(d, x)
      t == capped_tolerance(e.height, tolerance)
      bb == BoundingBox(0, page_width(d, p), e.y0 + t, e.y1 - t)
  IN  unless_inclusive(d, filter_partially_within_bounding_box(d, S, bb, p), x, inclusive)

\* the all_pages loop of below / above / vertically_in_line_with: the union, over
\* the pages ps, of the full-height strips; the first failing call raises
full_height_strips(d, S, e, t, ps) ==
  LET strip(p) == filter_partially_within_bounding_box(d, S,
                    BoundingBox(e.x0 + t, e.x1 - t, 0, page_height(d, p)), p)
      failing == {p \in ps : strip(p).err # "none"}
  IN  IF failing # {} THEN strip(SetMin(failing))
      ELSE Ok(UNION {strip(p).indexes : p \in ps})

\* results | (the strips of the other pages)
with_other_pages(d, results, strips) ==
  IF results.err # "none" THEN results
  ELSE IF strips.err # "none" THEN strips
  ELSE Ok(Or(d, results.indexes, strips.indexes))

\* ElementList.below
below(d, S, x, inclusive, all_pages, tolerance) ==
  LET e == bounding_box(d, x)
      p == page_number(d, x)
      t == capped_tolerance(e.width, tolerance)
      bb == BoundingBox(e.x0 + t, e.x1 - t, 0, e.y0)
      results == filter_partially_within_bounding_box(d, S, bb, p)
      ps == {q \in page_numbers(d) : q > p}
  IN  unless_inclusive(d,
        IF all_pages
          THEN with_other_pages(d, results, full_height_strips(d, S, e, t, ps))
          ELSE results,
        x, inclusive)

\* ElementList.above
above(d, S, x, inclusive, all_pages, tolerance) ==
  LET e == bounding_box(d, x)
      p == page_number(d, x)
      t == capped_tolerance(e.width, tolerance)
      bb == BoundingBox(e.x0 + t, e.x1 - t, e.y1, page_height(d, p))
      results == filter_partially_within_bounding_box(d, S, bb, p)
      ps == {q \in page_numbers(d) : q < p}
  IN  unless_inclusive(d,
        IF all_pages
          THEN with_other_pages(d, results, full_height_strips(d, S, e, t, ps))
          ELSE results,
        x, inclusive)

\* ElementList.vertically_in_line_with: with all_pages the loop runs over
\* range(self[0].page_number, self[-1].page_number + 1); self[0] raises IndexError
\* on an empty list and get_page raises PageNotFoundError on a missing page
vertically_in_line_with(d, S, x, inclusive, all_pages, tolerance) ==
  LET e == bounding_box(d, x)
      p == page_number(d, x)
      t == capped_tolerance(e.width, tolerance)
      bb == BoundingBox(e.x0 + t, e.x1 - t, 0, page_height(d, p))
      results == filter_partially_within_bounding_box(d, S, bb, p)
      ps == (page_number(d, SetMin(S)) .. page_number(d, SetMax(S))) \ {p}
  IN  unless_inclusive(d,
        IF ~all_pages \/ results.err # "none" THEN results
        ELSE IF S = {} THEN Raise("IndexError")
        ELSE with_other_pages(d, results, full_height_strips(d, S, e, t, ps)),
        x, inclusive)

(***************************************************************************)
(* Positions inside an ElementList                                         *)
(***************************************************************************)
\* sorted(self.indexes)
RECURSIVE sorted(_)
sorted(S) == IF S = {} THEN <<>> ELSE <<SetMin(S)>> \o sorted(S \ {SetMin(S)})

\* list.index(value), 0-based; the value is in the list
index_of(seq, v) == (CHOOSE k \in 1 .. Len(seq) : seq[k] = v) - 1

\* ElementList.move_forwards_from testing only the upper end of the range, so
\* that a negative position counts from the end of the list
move_forwards_from_wrapping(d, S, x, count, capped) ==
  LET indexes == sorted(S)
      new_index == index_of(indexes, x) + count
  IN  IF x \notin S THEN Raise("ValueError")
      ELSE IF new_index >= Len(indexes)
        THEN IF capped
               THEN OkElement(indexes[Len(indexes)])
               ELSE Raise("ElementOutOfRangeError")
        ELSE IF new_index < 0 /\ new_index + Len(indexes) < 0
          THEN Raise("IndexError")
          ELSE OkElement(indexes[(IF new_index < 0 THEN new_index + Len(indexes)
                                  ELSE new_index) + 1])

\* ElementList.move_forwards_from; list.index raises ValueError when the element
\* is not in the list
move_forwards_from(d, S, x, count, capped) ==
  LET indexes == sorted(S)
      new_index == index_of(indexes, x) + count
  IN  IF x \notin S THEN Raise("ValueError")
      ELSE IF new_index < 0 \/ new_index >= Len(indexes)
        THEN IF capped
               THEN OkElement(indexes[Max(Min(new_index, Len(indexes) - 1), 0) + 1])
               ELSE Raise("ElementOutOfRangeError")
        ELSE OkElement(indexes[new_index + 1])

\* ElementList.move_backwards_from
move_backwards_from(d, S, x, count, capped) ==
  move_forwards_from(d, S, x, 0 - count, capped)

\* ElementList.extract_single_element
extract_single_element(d, S) ==
  IF Cardinality(S) = 0 THEN Raise("NoElementFoundError")
  ELSE IF Cardinality(S) > 1 THEN Raise("MultipleElementsFoundError")
  ELSE OkElement(CHOOSE i \in S : TRUE)

\* a slice bound of Python: negative counts from the end, then clamped to 0..n
slice_bound(k, n) == IF k < 0 THEN Max(k + n, 0) ELSE Min(k, n)

\* ElementList.__getitem__(slice(start, stop))
getitem_slice(d, S, start, stop) ==
  LET indexes == sorted(S)
      lo == slice_bound(start, Len(indexes))
      hi == slice_bound(stop, Len(indexes))
  IN  Ok(ElementList(d, {indexes[k] : k \in (lo + 1) .. hi}))

\* ElementList.__getitem__(int)
getitem(d, S, key) ==
  LET indexes == sorted(S)
      k == IF key < 0 THEN key + Len(indexes) ELSE key
  IN  IF k < 0 \/ k >= Len(indexes) THEN Raise("IndexError")
      ELSE OkElement(indexes[k + 1])

(***************************************************************************)
(* Sectioning                                                              *)
(***************************************************************************)
\* section names are sequences of characters
Names == {<<"a">>, <<"a", "_", "0">>}

Digit(k) == CASE k = 0 -> "0" [] k = 1 -> "1" [] k = 2 -> "2" [] k = 3 -> "3"
              [] k = 4 -> "4" [] k = 5 -> "5" [] k = 6 -> "6" [] k = 7 -> "7"
              [] k = 8 -> "8" [] k = 9 -> "9"

\* str(int) of a count >= 0
RECURSIVE str(_)
str(k) == IF k < 10 THEN <<Digit(k)>> ELSE str(k \div 10) \o <<Digit(k % 10)>>

\* f"{name}_{current_count}"
unique_name_of(name, current_count) == name \o <<"_">> \o str(current_count)

\* PDFDocument.element_index: an element is its index
element_index(d, e) == e

\* Section.elements as the bare captured range
section_elements_range_only(sec) == sec.start_element .. sec.end_element

\* Section.elements
section_elements(sec) ==
  LET start_index == element_index(sec.document, sec.start_element)
      end_index == element_index(sec.document, sec.end_element)
  IN  ElementList(sec.document, start_index .. end_index)

\* Section.__contains__
section_contains(sec, e) ==
  LET index == element_index(sec.document, e)
      start_index == element_index(sec.document, sec.start_element)
      end_index == element_index(sec.document, sec.end_element)
  IN  start_index <= index /\ index <= end_index

\* Sectioning.sections
sections == {sections_dict[u] : u \in DOMAIN sections_dict}

\* Sectioning.get_sections_with_name: all the sections sharing the name
get_sections_with_name(name) == {sec \in sections : sec.name = name}

\* ElementList.filter_by_section_name
filter_by_section_name(d, S, name) ==
  Ok(intersect_indexes_with_self(d, S,
       UNION {section_elements(sec) : sec \in get_sections_with_name(name)}))

\* ElementList.filter_by_section_names
filter_by_section_names(d, S, ns) ==
  Ok(intersect_indexes_with_self(d, S,
       UNION {section_elements(sec) :
                sec \in UNION {get_sections_with_name(name) : name \in ns}}))

\* Sectioning.get_section: the section registered under the unique name
get_section(unique_name) ==
  IF unique_name \in DOMAIN sections_dict
    THEN [err |-> "none", section |-> sections_dict[unique_name]]
    ELSE [err |-> "SectionNotFoundError"]

\* ElementList.filter_by_section: SectionNotFoundError is caught
filter_by_section(d, S, section_str) ==
  LET found == get_section(section_str)
  IN  IF found.err = "SectionNotFoundError"
        THEN Ok(intersect_indexes_with_self(d, S, {}))
        ELSE Ok(intersect_indexes_with_self(d, S, section_elements(found.section)))

\* ElementList.filter_by_sections: sections_dict[section_str] raises KeyError for
\* a missing key, which the handler for SectionNotFoundError does not catch
filter_by_sections(d, S, section_strs) ==
  IF \E section_str \in section_strs : section_str \notin DOMAIN sections_dict
    THEN Raise("KeyError")
    ELSE Ok(intersect_indexes_with_self(d, S,
              UNION {section_elements(sections_dict[section_str]) :
                       section_str \in section_strs}))

(***************************************************************************)
(* The state machine.  The caller is either between two calls (last is     *)
(* Idle) or holds the outcome of the call it just made (last records the   *)
(* call), which it keeps, drops, or makes the next call on.                *)
(***************************************************************************)
NoArgs == [none |-> TRUE]

Idle == [op |-> "idle", returns |-> "none", doc |-> 1, recv |-> {},
         args |-> NoArgs, out |-> [err |-> "none", indexes |-> {}, element |-> NoElement]]

Init ==
  /\ element_list = <<>>
  /\ ignored_indexes = [d \in Docs \cup {TableDocument} |-> {}]
  /\ tags = [d \in Docs |-> [i \in Indexes(d) |-> {}]]
  /\ element_indexes_by_font = [d \in Docs |-> <<>>]
  /\ name_counts = [n \in Names |-> 0]
  /\ sections_dict = <<>>
  /\ lists = {}
  /\ last = Idle

\* an ElementList value
List(d, S) == [document |-> d, indexes |-> S]

\* the ElementLists the caller kept
Kept == {List(l.document, l.indexes) : l \in lists}

\* the ElementList the last call returned
Returned ==
  IF last.returns = "list" /\ last.out.err = "none"
    THEN {List(last.doc, last.out.indexes)} ELSE {}

\* the returned ElementList the caller makes its next call on without keeping it:
\* document.elements, possibly narrowed by remove_elements
Chained ==
  IF last.op \in {"elements", "remove_elements"} THEN Returned ELSE {}

\* the caller's inputs
Counts == (0 - MaxCount) .. MaxCount

Tolerances == 0 .. MaxTolerance

Texts == {<<"a", "b">>, <<"b">>}

Pages(d) == page_numbers(d) \cup {2}

Boxes == {BoundingBox(0, 20, 0, 20), BoundingBox(0, 6, 10, 16),
          BoundingBox(8, 20, 0, 9), BoundingBox(7, 7, 0, 20)}

\* the record of a call
Called(op, kind, r, args, out) ==
  last' = [op |-> op, returns |-> kind, doc |-> r.document, recv |-> r.indexes,
           args |-> args, out |-> out]

\* a call that changes nothing but returns
Query(op, kind, r, args, out) ==
  /\ Called(op, kind, r, args, out)
  /\ UNCHANGED <<element_list, ignored_indexes, tags, element_indexes_by_font, name_counts,
                 sections_dict, lists>>

\* PDFDocument.elements
Elements(d) == Query("elements", "list", List(d, {}), NoArgs, Ok(elements(d)))

\* the caller keeps a reference to the ElementList just returned
Keep ==
  /\ Returned # {}
  /\ Cardinality(lists) < MaxLists
  /\ lists' = lists \cup {[document |-> last.doc, indexes |-> last.out.indexes,
                           constructed |-> last.out.indexes]}
  /\ last' = Idle
  /\ UNCHANGED <<element_list, ignored_indexes, tags, element_indexes_by_font, name_counts,
                 sections_dict>>

\* the caller drops the outcome of the last call
Drop ==
  /\ last # Idle
  /\ last' = Idle
  /\ UNCHANGED <<element_list, ignored_indexes, tags, element_indexes_by_font, name_counts,
                 sections_dict, lists>>

\* the caller drops its reference to a kept ElementList
Forget(l) ==
  /\ lists' = lists \ {l}
  /\ UNCHANGED <<element_list, ignored_indexes, tags, element_indexes_by_font, name_counts,
                 sections_dict, last>>

\* PDFElement.ignore
Ignore(d, i) ==
  /\ ignored_indexes' = [ignored_indexes EXCEPT ![d] = @ \cup {i}]
  /\ Called("ignore", "none", List(d, {}), [x |-> i], Ok({}))
  /\ UNCHANGED <<element_list, tags, element_indexes_by_font, name_counts, sections_dict, lists>>

\* ElementList.ignore_elements
IgnoreElements(r) ==
  /\ ignored_indexes' = [ignored_indexes EXCEPT ![r.document] = @ \cup r.indexes]
  /\ Called("ignore_elements", "none", r, NoArgs, Ok({}))
  /\ UNCHANGED <<element_list, tags, element_indexes_by_font, name_counts, sections_dict, lists>>

\* PDFElement.add_tag
AddTag(d, i, t) ==
  /\ tags' = [tags EXCEPT ![d][i] = @ \cup {t}]
  /\ Called("add_tag", "none", List(d, {}), [x |-> i], Ok({}))
  /\ UNCHANGED <<element_list, ignored_indexes, element_indexes_by_font, name_counts,
                 sections_dict, lists>>

\* ElementList.add_tag_to_elements
AddTagToElements(r, t) ==
  /\ tags' = [tags EXCEPT ![r.document] =
                [i \in Indexes(r.document) |-> IF i \in r.indexes THEN @[i] \cup {t} ELSE @[i]]]
  /\ Called("add_tag_to_elements", "none", r, NoArgs, Ok({}))
  /\ UNCHANGED <<element_list, ignored_indexes, element_indexes_by_font, name_counts,
                 sections_dict, lists>>

FilterByTag(r, t) ==
  Query("filter_by_tag", "list", r, NoArgs, filter_by_tag(r.document, r.indexes, t))

FilterByTags(r, ts) ==
  Query("filter_by_tags", "list", r, NoArgs, filter_by_tags(r.document, r.indexes, ts))

FilterByTextEqual(r, txt, stripped) ==
  Query("filter_by_text_equal", "list", r, NoArgs,
        filter_by_text_equal(r.document, r.indexes, txt, stripped))

FilterByTextContains(r, txt) ==
  Query("filter_by_text_contains", "list", r, NoArgs,
        filter_by_text_contains(r.document, r.indexes, txt))

FilterByRegex(r, regex, stripped) ==
  Query("filter_by_regex", "list", r, NoArgs,
        filter_by_regex(r.document, r.indexes, regex, stripped))

\* ElementList.filter_by_fonts, which fills the font cache of the document
FilterByFonts(r, fs) ==
  /\ Called("filter_by_fonts", "list", r, [fonts |-> fs],
            filter_by_fonts(r.document, r.indexes, fs))
  /\ element_indexes_by_font' =
       [element_indexes_by_font EXCEPT ![r.document] = cache_after(r.document, fs)]
  /\ UNCHANGED <<element_list, ignored_indexes, tags, name_counts, sections_dict, lists>>

\* ElementList.filter_by_font
FilterByFont(r, f) ==
  /\ Called("filter_by_font", "list", r, [fonts |-> {f}],
            filter_by_fonts(r.document, r.indexes, {f}))
  /\ element_indexes_by_font' =
       [element_indexes_by_font EXCEPT ![r.document] = cache_after(r.document, {f})]
  /\ UNCHANGED <<element_list, ignored_indexes, tags, name_counts, sections_dict, lists>>

FilterByPage(r, p) ==
  Query("filter_by_page", "list", r, NoArgs, filter_by_page(r.document, r.indexes, p))

FilterByPages(r, ps) ==
  Query("filter_by_pages", "list", r, NoArgs, filter_by_pages(r.document, r.indexes, ps))

FilterPartiallyWithinBoundingBox(r, bb, p) ==
  Query("filter_partially_within_bounding_box", "list", r, NoArgs,
        filter_partially_within_bounding_box(r.document, r.indexes, bb, p))

ToTheRightOf(r, x, inclusive, tolerance) ==
  Query("to_the_right_of", "list", r, [x |-> x, inclusive |-> inclusive],
        to_the_right_of(r.document, r.indexes, x, inclusive, tolerance))

ToTheLeftOf(r, x, inclusive, tolerance) ==
  Query("to_the_left_of", "list", r, [x |-> x, inclusive |-> inclusive],
        to_the_left_of(r.document, r.indexes, x, inclusive, tolerance))

Below(r, x, inclusive, all_pages, tolerance) ==
  Query("below", "list", r, [x |-> x, inclusive |-> inclusive],
        below(r.document, r.indexes, x, inclusive, all_pages, tolerance))

Above(r, x, inclusive, all_pages, tolerance) ==
  Query("above", "list", r, [x |-> x, inclusive |-> inclusive],
        above(r.document, r.indexes, x, inclusive, all_pages, tolerance))

VerticallyInLineWith(r, x, inclusive, all_pages, tolerance) ==
  Query("vertically_in_line_with", "list", r, [x |-> x, inclusive |-> inclusive],
        vertically_in_line_with(r.document, r.indexes, x, inclusive, all_pages, tolerance))

HorizontallyInLineWith(r, x, inclusive, tolerance) ==
  Query("horizontally_in_line_with", "list", r, [x |-> x, inclusive |-> inclusive],
        horizontally_in_line_with(r.document, r.indexes, x, inclusive, tolerance))

Before(r, x, inclusive) ==
  Query("before", "list", r, [x |-> x, y |-> x, inclusive |-> inclusive],
        before(r.document, r.indexes, x, inclusive))

After(r, x, inclusive) ==
  Query("after", "list", r, [x |-> x, y |-> x, inclusive |-> inclusive],
        after(r.document, r.indexes, x, inclusive))

Between(r, x, y, inclusive) ==
  Query("between", "list", r, [x |-> x, y |-> y, inclusive |-> inclusive],
        between(r.document, r.indexes, x, y, inclusive))

ExtractSingleElement(r) ==
  Query("extract_single_element", "element", r, NoArgs,
        extract_single_element(r.document, r.indexes))

AddElement(r, x) ==
  Query("add_element", "list", r, [elements |-> {x}],
        add_element(r.document, r.indexes, x))

AddElements(r, xs) ==
  Query("add_elements", "list", r, [elements |-> xs],
        add_elements(r.document, r.indexes, xs))

RemoveElement(r, x) ==
  Query("remove_element", "list", r, [elements |-> {x}],
        remove_element(r.document, r.indexes, x))

RemoveElements(r, xs) ==
  Query("remove_elements", "list", r, [elements |-> xs],
        remove_elements(r.document, r.indexes, xs))

MoveForwardsFrom(r, x, count, capped) ==
  Query("move_forwards_from", "element", r,
        [x |-> x, count |-> count, capped |-> capped],
        move_forwards_from(r.document, r.indexes, x, count, capped))

MoveBackwardsFrom(r, x, count, capped) ==
  Query("move_backwards_from", "element", r,
        [x |-> x, count |-> count, capped |-> capped],
        move_backwards_from(r.document, r.indexes, x, count, capped))

GetItemSlice(r, start, stop) ==
  Query("getitem_slice", "list", r, NoArgs,
        getitem_slice(r.document, r.indexes, start, stop))

GetItem(r, key) ==
  Query("getitem", "element", r, NoArgs, getitem(r.document, r.indexes, key))

SubOp(r, o) ==
  Query("sub", "list", r, [other |-> o.indexes], Ok(Sub(r.document, r.indexes, o.indexes)))

OrOp(r, o) ==
  Query("or", "list", r, [other |-> o.indexes], Ok(Or(r.document, r.indexes, o.indexes)))

XorOp(r, o) ==
  Query("xor", "list", r, [other |-> o.indexes], Ok(Xor(r.document, r.indexes, o.indexes)))

AndOp(r, o) ==
  Query("and", "list", r, [other |-> o.indexes], Ok(And(r.document, r.indexes, o.indexes)))

(***************************************************************************)
(* Spec: the elements and ElementLists of one document                     *)
(***************************************************************************)
\* the calls made on the document or one of its elements
DocumentStep ==
  \/ Elements(1)
  \/ \E i \in Indexes(1) : Ignore(1, i)
  \/ \E i \in Indexes(1), t \in Tags : AddTag(1, i, t)

\* the calls that change the document through an ElementList
ListMutation ==
  \E r \in Kept :
    \/ IgnoreElements(r)
    \/ \E t \in Tags : AddTagToElements(r, t)

AttributeFilter ==
  \E r \in Kept :
    \/ \E t \in Tags : FilterByTag(r, t)
    \/ \E ts \in SUBSET Tags : FilterByTags(r, ts)
    \/ \E txt \in Texts, stripped \in BOOLEAN : FilterByTextEqual(r, txt, stripped)
    \/ \E txt \in Texts : FilterByTextContains(r, txt)
    \/ \E regex \in Texts, stripped \in BOOLEAN : FilterByRegex(r, regex, stripped)
    \/ \E f \in Fonts : FilterByFont(r, f)
    \/ \E fs \in SUBSET Fonts : FilterByFonts(r, fs)
    \/ \E p \in Pages(r.document) : FilterByPage(r, p)
    \/ \E ps \in SUBSET Pages(r.document) : FilterByPages(r, ps)

OrderFilter ==
  \E r \in Kept :
    \E x \in Indexes(r.document), inclusive \in BOOLEAN :
      \/ Before(r, x, inclusive)
      \/ After(r, x, inclusive)
      \/ \E y \in Indexes(r.document) : Between(r, x, y, inclusive)

SpatialFilter ==
  \E r \in Kept :
    \/ \E x \in Indexes(r.document), inclusive \in BOOLEAN, tolerance \in Tolerances :
         \/ ToTheRightOf(r, x, inclusive, tolerance)
         \/ ToTheLeftOf(r, x, inclusive, tolerance)
         \/ HorizontallyInLineWith(r, x, inclusive, tolerance)
         \/ \E all_pages \in BOOLEAN :
              \/ Below(r, x, inclusive, all_pages, tolerance)
              \/ Above(r, x, inclusive, all_pages, tolerance)
              \/ VerticallyInLineWith(r, x, inclusive, all_pages, tolerance)
    \/ \E bb \in Boxes, p \in Pages(r.document) :
         FilterPartiallyWithinBoundingBox(r, bb, p)

ListEdit ==
  \E r \in Kept :
    \/ \E x \in Indexes(r.document) : AddElement(r, x)
    \/ \E xs \in SUBSET Indexes(r.document) : AddElements(r, xs)
    \/ \E x \in Indexes(r.document) : RemoveElement(r, x)
    \/ \E start \in Counts, stop \in Counts : GetItemSlice(r, start, stop)

\* remove_elements, also chained on the ElementList just returned
Narrow ==
  \E r \in (IF last = Idle THEN Kept ELSE Chained) :
    \E xs \in SUBSET Indexes(r.document) : RemoveElements(r, xs)

\* the set operators, between kept ElementLists and the one just returned
SetOperator ==
  \E r \in Kept \cup Chained, o \in Kept \cup Chained :
    /\ o.document = r.document
    /\ last = Idle \/ r \in Chained \/ o \in Chained
    /\ \/ SubOp(r, o)
       \/ OrOp(r, o)
       \/ XorOp(r, o)
       \/ AndOp(r, o)

ElementQuery ==
  \E r \in Kept :
    \/ ExtractSingleElement(r)
    \/ \E key \in Counts : GetItem(r, key)
    \/ \E x \in Indexes(r.document), count \in Counts, capped \in BOOLEAN :
         \/ MoveForwardsFrom(r, x, count, capped)
         \/ MoveBackwardsFrom(r, x, count, capped)

\* the caller's own steps
CallerStep ==
  \/ Keep
  \/ Drop
  \/ \E l \in lists : last = Idle /\ Forget(l)

Next ==
  \/ CallerStep
  \/ last = Idle /\ DocumentStep
  \/ last = Idle /\ ListMutation
  \/ last = Idle /\ AttributeFilter
  \/ last = Idle /\ OrderFilter
  \/ last = Idle /\ SpatialFilter
  \/ last = Idle /\ ListEdit
  \/ last = Idle /\ ElementQuery
  \/ Narrow
  \/ SetOperator

Spec == Init /\ [][Next]_vars

(***************************************************************************)
(* SpecSec: sections registered on two documents                           *)
(***************************************************************************)
\* the create_section calls made so far
RECURSIVE Total(_, _)
Total(f, S) ==
  IF S = {} THEN 0
  ELSE LET n == CHOOSE m \in S : TRUE IN f[n] + Total(f, S \ {n})

NumCreated == Total(name_counts, Names)

NumIgnored == Cardinality(ignored_indexes[1]) + Cardinality(ignored_indexes[2])

\* Section.__init__; nth is not a field of the program: it counts the sections
\* created before this one on the same document under the same name
Section(d, name, unique_name, start_element, end_element) ==
  [document |-> d, name |-> name, unique_name |-> unique_name,
   start_element |-> start_element, end_element |-> end_element,
   nth |-> Cardinality({u \in DOMAIN sections_dict :
                          /\ sections_dict[u].document = d
                          /\ sections_dict[u].name = name})]

\* a registry that holds the section just created and no other
sections_dict_anew(d, name, start_element, end_element) ==
  LET unique_name == unique_name_of(name, name_counts[name])
  IN  [u \in {unique_name} |-> Section(d, name, unique_name, start_element, end_element)]

\* Sectioning.create_section: the registry after the call
sections_dict_after(d, name, start_element, end_element) ==
  LET unique_name == unique_name_of(name, name_counts[name])
      section == Section(d, name, unique_name, start_element, end_element)
  IN  [u \in (DOMAIN sections_dict) \cup {unique_name} |->
         IF u = unique_name THEN section ELSE sections_dict[u]]

\* Sectioning.create_section
CreateSection(d, name, start_element, end_element) ==
  /\ NumCreated < MaxSections
  /\ sections_dict' = sections_dict_after(d, name, start_element, end_element)
  /\ name_counts' = [name_counts EXCEPT ![name] = @ + 1]
  /\ Called("create_section", "section", List(d, {}),
            [name |-> name, start_element |-> start_element,
             end_element |-> end_element,
             unique_name |-> unique_name_of(name, name_counts[name])],
            Ok({}))
  /\ UNCHANGED <<element_list, ignored_indexes, tags, element_indexes_by_font, lists>>

\* Section.elements of the section registered as u
SectionElements(u) ==
  Query("section_elements", "list", List(sections_dict[u].document, {}),
        [unique_name |-> u], Ok(section_elements(sections_dict[u])))

\* `element in section` for the section registered as u
SectionContains(u, e) ==
  Query("section_contains", "bool", List(sections_dict[u].document, {}),
        [unique_name |-> u, x |-> e],
        OkBool(section_contains(sections_dict[u], e)))

FilterBySectionName(r, name) ==
  Query("filter_by_section_name", "list", r, [names |-> {name}],
        filter_by_section_name(r.document, r.indexes, name))

FilterBySectionNames(r, ns) ==
  Query("filter_by_section_names", "list", r, [names |-> ns],
        filter_by_section_names(r.document, r.indexes, ns))

FilterBySection(r, u) ==
  Query("filter_by_section", "list", r, [names |-> {u}],
        filter_by_section(r.document, r.indexes, u))

FilterBySections(r, us) ==
  Query("filter_by_sections", "list", r, [names |-> us],
        filter_by_sections(r.document, r.indexes, us))

\* the unique names the caller asks for: registered or not
UniqueNames == {unique_name_of(<<"a">>, k) : k \in 0 .. MaxSections}

SectioningStep ==
  \/ \E d \in Docs : Elements(d)
  \/ \E d \in Docs : \E i \in Indexes(d) : NumIgnored < MaxIgnored /\ Ignore(d, i)
  \/ \E d \in Docs, name \in Names :
       \E start_element \in Indexes(d), end_element \in Indexes(d) :
         CreateSection(d, name, start_element, end_element)
  \/ \E u \in DOMAIN sections_dict : SectionElements(u)
  \/ \E u \in DOMAIN sections_dict :
       \E e \in Indexes(sections_dict[u].document) : SectionContains(u, e)

SectionFilter ==
  \E r \in Chained :
    \/ \E name \in Names : FilterBySectionName(r, name)
    \/ \E ns \in SUBSET Names : FilterBySectionNames(r, ns)
    \/ \E u \in UniqueNames : FilterBySection(r, u)
    \/ \E us \in SUBSET UniqueNames : FilterBySections(r, us)

NextSec ==
  \/ Drop
  \/ last = Idle /\ SectioningStep
  \/ Narrow
  \/ SectionFilter

SpecSec == Init /\ [][NextSec]_vars

(***************************************************************************)
(* SpecState: the calls that write to the state of a document              *)
(***************************************************************************)
\* the ElementLists the calls are made on
Receivers == UNION {{List(d, S) : S \in SUBSET Indexes(d)} : d \in Docs}

\* the calls that write to a document: ignore, add_tag, create_section and the
\* font filters
Mutation ==
  \/ \E d \in Docs : \E i \in Indexes(d) : Ignore(d, i)
  \/ \E d \in Docs : \E i \in Indexes(d), t \in Tags : AddTag(d, i, t)
  \/ \E r \in Receivers : IgnoreElements(r)
  \/ \E r \in Receivers, t \in Tags : AddTagToElements(r, t)
  \/ \E d \in Docs, fs \in SUBSET Fonts : FilterByFonts(List(d, Indexes(d)), fs)
  \/ \E d \in Docs, name \in Names :
       \E start_element \in Indexes(d), end_element \in Indexes(d) :
         CreateSection(d, name, start_element, end_element)

\* the writes the calls are made after at most
MaxWritten == 5

\* what has been written: ignored indexes, tags, cached fonts and sections
Written ==
  Total([d \in Docs |-> Cardinality(ignored_indexes[d])], Docs)
    + Total([d \in Docs |-> Total([i \in Indexes(d) |-> Cardinality(tags[d][i])],
                                 Indexes(d))], Docs)
    + Total([d \in Docs |-> Cardinality(DOMAIN element_indexes_by_font[d])], Docs)
    + Cardinality(DOMAIN sections_dict)

NextState ==
  \/ Drop
  \/ last = Idle /\ Written < MaxWritten /\ Mutation

SpecState == Init /\ [][NextState]_vars

(***************************************************************************)
(* Construction of a document from the loader's pages (SpecBuild).         *)
(***************************************************************************)
\* the most elements on one page
MaxPerPage == 2

\* the keys of the pages dictionary
PageNumbers == {1, 3}

\* the corners (x0, y0) of the layout elements; the elements of a page differ
\* in their corner
Corners == [x0 : {0, 1}, y0 : {0, 1}]

Range(q) == {q[k] : k \in 1 .. Len(q)}

\* the sequences without repetition over S of length at most n
RECURSIVE SeqsWithoutRepetition(_, _)
SeqsWithoutRepetition(S, n) ==
  IF n = 0 THEN {<<>>}
  ELSE LET shorter == SeqsWithoutRepetition(S, n - 1)
       IN  shorter \cup
           UNION {{Append(q, x) : x \in S \ Range(q)} :
                    q \in {r \in shorter : Len(r) = n - 1}}

\* loaders.Page: the elements of a page as the loader lists them
PageContents == SeqsWithoutRepetition(Corners, MaxPerPage)

\* the pages argument: a dictionary in insertion order
PagesArguments ==
  UNION {{[k \in 1 .. Len(ns) |-> [page_number |-> ns[k], elements |-> c[k]]] :
            c \in [1 .. Len(ns) -> PageContents]} :
           ns \in SeqsWithoutRepetition(PageNumbers, Cardinality(PageNumbers))}

ElementOrdering ==
  {"LEFT_TO_RIGHT_TOP_TO_BOTTOM", "RIGHT_TO_LEFT_TOP_TO_BOTTOM",
   "TOP_TO_BOTTOM_LEFT_TO_RIGHT", "TOP_TO_BOTTOM_RIGHT_TO_LEFT"}

\* _ELEMENT_ORDERING_FUNCTIONS: the sort key of each preset
ordering_key(element_ordering, elem) ==
  CASE element_ordering = "LEFT_TO_RIGHT_TOP_TO_BOTTOM" -> <<0 - elem.y0, elem.x0>>
    [] element_ordering = "RIGHT_TO_LEFT_TOP_TO_BOTTOM" -> <<0 - elem.y0, 0 - elem.x0>>
    [] element_ordering = "TOP_TO_BOTTOM_LEFT_TO_RIGHT" -> <<elem.x0, 0 - elem.y0>>
    [] element_ordering = "TOP_TO_BOTTOM_RIGHT_TO_LEFT" -> <<0 - elem.x0, 0 - elem.y0>>

\* the order of Python on pairs
TupleLess(a, b) == a[1] < b[1] \/ (a[1] = b[1] /\ a[2] < b[2])

\* sorted(elements, key=...): stable, an element goes behind those whose key
\* is not greater
RECURSIVE sort_func(_, _)
sort_func(element_ordering, elems) ==
  IF elems = <<>> THEN <<>>
  ELSE LET n == Len(elems)
           e == elems[n]
           front == sort_func(element_ordering, SubSeq(elems, 1, n - 1))
           pos == Cardinality({k \in 1 .. n - 1 :
                    ~TupleLess(ordering_key(element_ordering, e),
                               ordering_key(element_ordering, front[k]))})
       IN  SubSeq(front, 1, pos) \o <<e>> \o SubSeq(front, pos + 1, n - 1)

\* pages.items() as the dictionary iterates, without sorted()
pages_in_insertion_order(pages) == pages

\* sorted(pages.items()): by page number
sorted_pages(pages) ==
  [k \in 1 .. Len(pages) |->
     CHOOSE pg \in Range(pages) :
       Cardinality({q \in Range(pages) : q.page_number < pg.page_number}) = k - 1]

\* PDFDocument.__init__: the loop over the sorted pages, from page k on
RECURSIVE add_pages(_, _, _, _)
add_pages(ps, k, element_ordering, doc) ==
  IF k > Len(ps) THEN doc
  ELSE LET elems == sort_func(element_ordering, ps[k].elements)
           idx == Len(doc.element_list)
           pdf_elements ==
             [j \in 1 .. Len(elems) |->
                [index |-> idx + j - 1, page_number |-> ps[k].page_number,
                 original_element |-> elems[j]]]
           page == [page_number |-> ps[k].page_number,
                    start_element |-> idx,
                    end_element |-> idx + Len(elems) - 1]
       IN  IF elems = <<>>
             THEN [doc EXCEPT !.err = "NoElementsOnPageError"]
             ELSE add_pages(ps, k + 1, element_ordering,
                    [doc EXCEPT !.element_list = @ \o pdf_elements,
                                !.pages = @ \cup {page}])

\* PDFDocument.__init__
PDFDocument(pages, element_ordering) ==
  add_pages(sorted_pages(pages), 1, element_ordering,
            [err |-> "none", element_list |-> <<>>, pages |-> {}])

\* the caller constructs a document
Construct(pages, element_ordering) ==
  Query("PDFDocument", "document", List(0, {}),
        [pages |-> pages, element_ordering |-> element_ordering],
        PDFDocument(pages, element_ordering))

NextBuild ==
  \/ Drop
  \/ /\ last = Idle
     /\ \E pages \in PagesArguments, element_ordering \in ElementOrdering :
          Construct(pages, element_ordering)

SpecBuild == Init /\ [][NextBuild]_vars

(***************************************************************************)
(* The geometric predicates of an element on arbitrary boxes (SpecGeom).   *)
(***************************************************************************)
\* the largest coordinate of a box
MaxCoord == 2

\* the boxes with integer coordinates that BoundingBox accepts
IntegerBoxes ==
  {b \in {BoundingBox(x0, x1, y0, y1) :
            x0 \in 0 .. MaxCoord, x1 \in 0 .. MaxCoord,
            y0 \in 0 .. MaxCoord, y1 \in 0 .. MaxCoord} : b.err = "none"}

\* element.partially_within(bounding_box) for an element with box e
PartiallyWithin(e, bb) ==
  Query("partially_within", "bool", List(0, {}), [element |-> e, box |-> bb],
        OkBool(box_partially_within(e, bb)))

\* element.entirely_within(bounding_box) for an element with box e
EntirelyWithin(e, bb) ==
  Query("entirely_within", "bool", List(0, {}), [element |-> e, box |-> bb],
        OkBool(box_entirely_within(e, bb)))

NextGeom ==
  \/ Drop
  \/ /\ last = Idle
     /\ \E e \in IntegerBoxes, bb \in IntegerBoxes :
          PartiallyWithin(e, bb) \/ EntirelyWithin(e, bb)

SpecGeom == Init /\ [][NextGeom]_vars

(***************************************************************************)
(* Tables (tables.py) on the table document                                *)
(***************************************************************************)
\* the largest number of elements of the table document
MaxTableElements == 4

\* the largest number of elements of a table document of two pages
MaxTwoPageElements == 2

\* the extents of a table cell along one axis (doubled): three bands with a
\* gap between them, and an extent spanning the last two
Intervals == {<<0, 4>>, <<8, 12>>, <<16, 20>>, <<8, 20>>}

TableBoxes ==
  {BoundingBox(x[1], x[2], y[1], y[2]) : x \in Intervals, y \in Intervals}

\* PDFDocument.__init__ with the default element ordering: the element lists
\* of n distinct boxes of one page, in an order sorted() can leave them in
RECURSIVE LayoutsOfLen(_)
LayoutsOfLen(n) ==
  IF n = 0 THEN {<<>>}
  ELSE LET key(b) == ordering_key("LEFT_TO_RIGHT_TOP_TO_BOTTOM", b)
           fits(s, b) ==
             /\ \A k \in 1 .. Len(s) : s[k].bounding_box # b
             /\ s = <<>> \/ ~TupleLess(key(b), key(s[Len(s)].bounding_box))
       IN  {Append(q[1], [bounding_box |-> q[2], page_number |-> 1]) :
              q \in {p \in LayoutsOfLen(n - 1) \X TableBoxes : fits(p[1], p[2])}}

\* the elements of a layout moved to page p
on_page(s, p) ==
  [k \in 1 .. Len(s) |-> [bounding_box |-> s[k].bounding_box, page_number |-> p]]

\* the element lists of a document of two pages: the elements of page 1,
\* then those of page 2
TwoPageLayouts ==
  UNION {{s \o on_page(t, 2) : s \in LayoutsOfLen(n[1]), t \in LayoutsOfLen(n[2])} :
           n \in {q \in (1 .. MaxTwoPageElements) \X (1 .. MaxTwoPageElements) :
                    q[1] + q[2] <= MaxTwoPageElements}}

TableLayouts ==
  UNION {LayoutsOfLen(n) : n \in 0 .. MaxTableElements} \cup TwoPageLayouts

\* a table: a sequence of rows of cells, a cell an element index or None
None == NoElement

OkTable(table) ==
  [err |-> "none", indexes |-> {}, element |-> NoElement, table |-> table]

\* [elements.horizontally_in_line_with(element, inclusive=True, ...) for element in xs]
rows_in_line_with(d, S, xs, tolerance) ==
  [k \in 1 .. Len(xs) |-> horizontally_in_line_with(d, S, xs[k], TRUE, tolerance)]

\* [elements.vertically_in_line_with(element, inclusive=True, all_pages=True, ...)
\*  for element in xs]
cols_in_line_with(d, S, xs, tolerance) ==
  [k \in 1 .. Len(xs) |-> vertically_in_line_with(d, S, xs[k], TRUE, TRUE, tolerance)]

\* the outcome of the first call of a sequence of calls that raised, if any
first_raised(calls) ==
  LET raised == {k \in 1 .. Len(calls) : calls[k].err # "none"}
  IN  IF raised = {} THEN Ok({}) ELSE calls[SetMin(raised)]

\* (current_row & current_column).extract_single_element() for every cell
cells_of(d, rows, cols) ==
  [r \in 1 .. Len(rows) |->
     [c \in 1 .. Len(cols) |-> extract_single_element(d, And(d, rows[r], cols[c]))]]

\* the table appended cell by cell, None for a cell without an element
table_of(cells) ==
  [r \in 1 .. Len(cells) |->
     [c \in 1 .. Len(cells[r]) |->
        IF cells[r][c].err = "none" THEN cells[r][c].element ELSE None]]

\* some cell raised this error
cell_raised(cells, err) ==
  \E r \in 1 .. Len(cells) : \E c \in 1 .. Len(cells[r]) : cells[r][c].err = err

\* the positions of a table holding an element
populated(table) ==
  {rc \in (1 .. Len(table)) \X (1 .. MaxTableElements) :
     rc[2] <= Len(table[rc[1]]) /\ table[rc[1]][rc[2]] # None}

\* sum(len([element for element in row if element is not None]) for row in table)
table_size(table) == Cardinality(populated(table))

\* table_size != len(elements)
size_mismatch(table, n) == table_size(table) # n

\* tables._validate_table_shape
_validate_table_shape(table) ==
  IF \E r \in 1 .. Len(table) : Len(table[r]) # Len(table[1])
    THEN Raise("InvalidTableError") ELSE Ok({})

\* extract_simple_table from the reference rows and columns on (as_text and
\* remove_duplicate_header_rows left False)
simple_table(d, S, rows, cols, allow_gaps) ==
  LET cells == cells_of(d, rows, cols)
      table == table_of(cells)
  IN  IF cell_raised(cells, "MultipleElementsFoundError")
        THEN Raise("TableExtractionError")
      ELSE IF cell_raised(cells, "NoElementFoundError") /\ ~allow_gaps
        THEN Raise("TableExtractionError")
      ELSE IF size_mismatch(table, Cardinality(S)) THEN Raise("TableExtractionError")
      ELSE IF _validate_table_shape(table).err # "none" THEN _validate_table_shape(table)
      ELSE OkTable(table)

\* the index sets of a sequence of returned ElementLists
indexes_of(calls) == [k \in 1 .. Len(calls) |-> calls[k].indexes]

\* tables.extract_simple_table; reference_element None: elements[0]
extract_simple_table(d, S, allow_gaps, reference_element, tolerance) ==
  LET ref == IF reference_element = None THEN getitem(d, S, 0)
             ELSE OkElement(reference_element)
  IN  IF ref.err # "none" THEN ref
      ELSE
        LET reference_row == horizontally_in_line_with(d, S, ref.element, TRUE, tolerance)
            reference_column ==
              vertically_in_line_with(d, S, ref.element, TRUE, TRUE, tolerance)
        IN  IF reference_row.err # "none" THEN reference_row
            ELSE IF reference_column.err # "none" THEN reference_column
            ELSE
              LET reference_columns ==
                    cols_in_line_with(d, S, sorted(reference_row.indexes), tolerance)
                  reference_rows ==
                    rows_in_line_with(d, S, sorted(reference_column.indexes), tolerance)
              IN  IF first_raised(reference_columns).err # "none"
                    THEN first_raised(reference_columns)
                  ELSE IF first_raised(reference_rows).err # "none"
                    THEN first_raised(reference_rows)
                  ELSE simple_table(d, S, indexes_of(reference_rows),
                                    indexes_of(reference_columns), allow_gaps)

\* a set of ElementLists is iterated in the order of the hashes; two orders stand
\* for it: by the binary code of the index sets, ascending or descending
SetOrders == {"ascending", "descending"}

RECURSIVE Code(_)
Code(S) == IF S = {} THEN 0 ELSE 2 ^ SetMax(S) + Code(S \ {SetMax(S)})

\* [row for row in rows]
iteration(groups, order) ==
  LET n == Cardinality(groups)
      ascending == [k \in 1 .. n |->
                      CHOOSE g \in groups :
                        Cardinality({h \in groups : Code(h) < Code(g)}) = k - 1]
  IN  IF order = "ascending" THEN ascending
      ELSE [k \in 1 .. n |-> ascending[n + 1 - k]]

\* the sort keys of extract_table, _fix_rows and _fix_cols:
\* (row[0].page_number, max(-(elem.bounding_box.y1) for elem in row)) for a row,
\* max(elem.bounding_box.x0 for elem in col) for a column (as a pair with 0)
group_key(d, group, axis) ==
  IF axis = "rows"
    THEN <<page_number(d, SetMin(group)),
           SetMax({0 - bounding_box(d, i).y1 : i \in group})>>
    ELSE <<SetMax({bounding_box(d, i).x0 : i \in group}), 0>>

\* the groups in the order the set is iterated in, without sorted()
in_iteration_order(d, groups, axis) == groups

\* sorted(groups, key=...): stable
RECURSIVE sorted_by_key(_, _, _)
sorted_by_key(d, groups, axis) ==
  IF groups = <<>> THEN <<>>
  ELSE LET n == Len(groups)
           g == groups[n]
           front == sorted_by_key(d, SubSeq(groups, 1, n - 1), axis)
           pos == Cardinality({k \in 1 .. n - 1 :
                    ~TupleLess(group_key(d, g, axis), group_key(d, front[k], axis))})
       IN  SubSeq(front, 1, pos) \o <<g>> \o SubSeq(front, pos + 1, n - 1)

\* sum([len(row) for row in rows])
RECURSIVE sum_len(_)
sum_len(groups) ==
  IF groups = {} THEN 0
  ELSE LET g == CHOOSE h \in groups : TRUE
       IN  Cardinality(g) + sum_len(groups \ {g})

\* the test for an element in several groups, never finding one
in_no_groups_twice(groups) == FALSE

\* sum([len(row) for row in rows]) != len(set(chain.from_iterable(rows)))
in_multiple(groups) == sum_len(groups) # Cardinality(UNION groups)

\* a sequence without the first occurrence of g (list.remove)
list_remove(seq, g) ==
  LET k == CHOOSE j \in 1 .. Len(seq) : seq[j] = g /\ \A i \in 1 .. j - 1 : seq[i] # g
  IN  SubSeq(seq, 1, k - 1) \o SubSeq(seq, k + 1, Len(seq))

\* _fix_rows / _fix_cols: "for row in sorted_rows_with_element[1:]", from the
\* k-th of the others on; st holds rows (groups), sorted_rows (sorted) and the
\* error raised, if any
RECURSIVE strip_from(_, _, _, _, _)
strip_from(d, st, x, others, k) ==
  IF k > Len(others) \/ st.err # "none" THEN st
  ELSE LET row == others[k]
           new_row == remove_element(d, row, x).indexes
       IN  IF new_row # {}
             THEN strip_from(d,
                    [err |-> "none",
                     groups |-> (st.groups \ {row}) \cup {new_row},
                     sorted |-> [j \in 1 .. Len(st.sorted) |->
                                   IF st.sorted[j] = row THEN new_row ELSE st.sorted[j]]],
                    x, others, k + 1)
           ELSE IF row \notin Range(st.sorted)
             THEN [err |-> "ValueError", groups |-> st.groups \ {row},
                   sorted |-> st.sorted]
           ELSE strip_from(d,
                    [err |-> "none", groups |-> st.groups \ {row},
                     sorted |-> list_remove(st.sorted, row)],
                    x, others, k + 1)

\* sorted(rows_with_element, key=lambda row: sorted_rows.index(row))
sorted_with_element(st, x) ==
  LET with == {g \in st.groups : x \in g}
      index(g) == index_of(st.sorted, g)
  IN  [k \in 1 .. Cardinality(with) |->
         CHOOSE g \in with : Cardinality({h \in with : index(h) < index(g)}) = k - 1]

\* _fix_rows / _fix_cols: "for element in elements", from the k-th element on
RECURSIVE fix_from(_, _, _, _)
fix_from(d, st, xs, k) ==
  IF k > Len(xs) \/ st.err # "none" THEN st
  ELSE LET x == xs[k]
           with == {g \in st.groups : x \in g}
       IN  IF Cardinality(with) <= 1 THEN fix_from(d, st, xs, k + 1)
           ELSE IF \E g \in with : g \notin Range(st.sorted)
             THEN [err |-> "ValueError", groups |-> st.groups, sorted |-> st.sorted]
           ELSE fix_from(d,
                  strip_from(d, st, x, Tail(sorted_with_element(st, x)), 1),
                  xs, k + 1)

\* the set of rows or columns as it is, no error raised
as_found(groups) == [err |-> "none", groups |-> groups, sorted |-> <<>>]

\* _fix_rows / _fix_cols keeping an element in every group it is in
_fix_nothing(d, groups, S, axis, order) == as_found(groups)

\* tables._fix_rows (axis "rows") and tables._fix_cols (axis "cols"): the set
\* after the call
_fix_groups(d, groups, S, axis, order) ==
  IF ~in_multiple(groups)
    THEN as_found(groups)
    ELSE fix_from(d,
           [err |-> "none", groups |-> groups,
            sorted |-> sorted_by_key(d, iteration(groups, order), axis)],
           sorted(S), 1)

_fix_rows(d, rows, S, order) == _fix_groups(d, rows, S, "rows", order)

_fix_cols(d, cols, S, order) == _fix_groups(d, cols, S, "cols", order)

\* extract_table once the rows and columns are final (as_text and
\* remove_duplicate_header_rows left False)
table_from(d, rows, cols, order) ==
  IF in_multiple(rows) THEN Raise("TableExtractionError")
  ELSE IF in_multiple(cols) THEN Raise("TableExtractionError")
  ELSE LET sorted_rows == sorted_by_key(d, iteration(rows, order), "rows")
           sorted_cols == sorted_by_key(d, iteration(cols, order), "cols")
           cells == cells_of(d, sorted_rows, sorted_cols)
           table == table_of(cells)
       IN  IF cell_raised(cells, "MultipleElementsFoundError")
             THEN Raise("TableExtractionError")
           ELSE IF _validate_table_shape(table).err # "none"
             THEN _validate_table_shape(table)
           ELSE OkTable(table)

\* rows = set() ... rows.add(row): the set of the lists returned
set_of(calls) == Range(indexes_of(calls))

\* tables.extract_table
extract_table(d, S, fix_element_in_multiple_rows, fix_element_in_multiple_cols, tolerance, order) ==
  LET in_rows == rows_in_line_with(d, S, sorted(S), tolerance)
      in_cols == cols_in_line_with(d, S, sorted(S), tolerance)
      raised == {k \in 1 .. Len(in_rows) :
                   in_rows[k].err # "none" \/ in_cols[k].err # "none"}
      rows == IF fix_element_in_multiple_rows
                THEN _fix_rows(d, set_of(in_rows), S, order)
                ELSE as_found(set_of(in_rows))
      cols == IF fix_element_in_multiple_cols
                THEN _fix_cols(d, set_of(in_cols), S, order)
                ELSE as_found(set_of(in_cols))
  IN  IF raised # {}
        THEN IF in_rows[SetMin(raised)].err # "none" THEN in_rows[SetMin(raised)]
             ELSE in_cols[SetMin(raised)]
      ELSE IF rows.err # "none" THEN Raise(rows.err)
      ELSE IF cols.err # "none" THEN Raise(cols.err)
      ELSE table_from(d, rows.groups, cols.groups, order)

\* the ElementList handed to the table functions: document.elements
TableInputs == {elements(TableDocument)}

ExtractSimpleTable(S, allow_gaps, reference_element, tolerance) ==
  Query("extract_simple_table", "table", List(TableDocument, S),
        [allow_gaps |-> allow_gaps, reference_element |-> reference_element,
         tolerance |-> tolerance],
        extract_simple_table(TableDocument, S, allow_gaps, reference_element, tolerance))

ExtractTable(S, fix_element_in_multiple_rows, fix_element_in_multiple_cols, tolerance, order) ==
  Query("extract_table", "table", List(TableDocument, S),
        [fix_element_in_multiple_rows |-> fix_element_in_multiple_rows,
         fix_element_in_multiple_cols |-> fix_element_in_multiple_cols,
         tolerance |-> tolerance, order |-> order],
        extract_table(TableDocument, S, fix_element_in_multiple_rows,
                      fix_element_in_multiple_cols, tolerance, order))

\* the rows / columns after a call of _fix_rows / _fix_cols
OkGroups(st) ==
  [err |-> st.err, indexes |-> {}, element |-> NoElement, groups |-> st.groups]

\* _fix_rows(rows, elements) as extract_table calls it
FixRows(S, tolerance, order) ==
  Query("_fix_rows", "groups", List(TableDocument, S),
        [tolerance |-> tolerance, order |-> order],
        OkGroups(_fix_rows(TableDocument,
                           set_of(rows_in_line_with(TableDocument, S, sorted(S), tolerance)),
                           S, order)))

\* _fix_cols(cols, elements) as extract_table calls it
FixCols(S, tolerance, order) ==
  Query("_fix_cols", "groups", List(TableDocument, S),
        [tolerance |-> tolerance, order |-> order],
        OkGroups(_fix_cols(TableDocument,
                           set_of(cols_in_line_with(TableDocument, S, sorted(S), tolerance)),
                           S, order)))

\* the table document is loaded with one of the layouts
InitTab ==
  /\ element_list \in TableLayouts
  /\ ignored_indexes = [d \in Docs \cup {TableDocument} |-> {}]
  /\ tags = [d \in Docs |-> [i \in Indexes(d) |-> {}]]
  /\ element_indexes_by_font = [d \in Docs |-> <<>>]
  /\ name_counts = [n \in Names |-> 0]
  /\ sections_dict = <<>>
  /\ lists = {}
  /\ last = Idle

NextTab ==
  \/ Drop
  \/ /\ last = Idle
     /\ \E S \in TableInputs, tolerance \in 0 .. MaxTolerance :
          \/ \E allow_gaps \in BOOLEAN, reference_element \in S \cup {None} :
               ExtractSimpleTable(S, allow_gaps, reference_element, tolerance)
          \/ \E fix_rows \in BOOLEAN, fix_cols \in BOOLEAN, order \in SetOrders :
               ExtractTable(S, fix_rows, fix_cols, tolerance, order)
          \/ \E order \in SetOrders :
               FixRows(S, tolerance, order) \/ FixCols(S, tolerance, order)

SpecTab == InitTab /\ [][NextTab]_vars

(***************************************************************************)
(* Tables of strings and their headers (SpecHeader)                        *)
(***************************************************************************)
\* the largest number of rows of a table of strings, and its largest width
MaxRows == 2

MaxWidth == 2

\* the strings of the cells and of the headers
Labels == {"a", "b"}

StringRows == UNION {[1 .. n -> Labels] : n \in 0 .. MaxWidth}

\* lists of lists of strings, rectangular or not
StringTables == UNION {[1 .. n -> StringRows] : n \in 0 .. MaxRows}

\* header: Optional[List[str]] = None
Headers ==
  {[is_none |-> TRUE, labels |-> <<>>]}
    \cup {[is_none |-> FALSE, labels |-> h] : h \in StringRows}

\* {header[idx]: element for idx, element in enumerate(row)}: a later entry of
\* the same key replaces an earlier one
dict_of(header, row) ==
  [l \in {header[idx] : idx \in 1 .. Len(row)} |->
     row[SetMax({idx \in 1 .. Len(row) : header[idx] = l})]]

\* the call returned this list of dicts; the table passed in is as it was
OkDicts(new_table, table) ==
  [err |-> "none", indexes |-> {}, element |-> NoElement,
   new_table |-> new_table, table |-> table]

\* tables.add_header_to_table
add_header_to_table(table, header) ==
  LET header_provided == ~header.is_none /\ header.labels # <<>>
      labels == IF header.is_none THEN table[1] ELSE header.labels
      new_table == [r \in 1 .. Len(table) |-> dict_of(labels, table[r])]
  IN  IF _validate_table_shape(table).err # "none" THEN _validate_table_shape(table)
      ELSE IF Len(table) = 0 THEN OkDicts(<<>>, table)
      ELSE IF ~header.is_none /\ Len(header.labels) # Len(table[1])
        THEN Raise("InvalidTableHeaderError")
      ELSE IF Len(labels) # Cardinality(Range(labels))
        THEN Raise("InvalidTableHeaderError")
      ELSE OkDicts(IF header_provided THEN new_table ELSE Tail(new_table), table)

AddHeaderToTable(table, header) ==
  Query("add_header_to_table", "dicts", List(0, {}),
        [table |-> table, header |-> header], add_header_to_table(table, header))

NextHeader ==
  \/ Drop
  \/ /\ last = Idle
     /\ \E table \in StringTables, header \in Headers : AddHeaderToTable(table, header)

SpecHeader == Init /\ [][NextHeader]_vars

(***************************************************************************)
(* The strips of the spatial filters in floating point (SpecFloat).        *)
(* Coordinates are Python floats; the format is scaled down to a mantissa  *)
(* of MantissaBits bits, values counted in units of the smallest exponent. *)
(***************************************************************************)
\* the bits of the mantissa (53 for a Python float)
MantissaBits == 3

\* the largest coordinate
MaxFloat == 2 ^ (MantissaBits + 3)

\* the exponent of n: the least k with n < 2^(MantissaBits + k)
RECURSIVE exponent(_, _)
exponent(n, k) == IF n < 2 ^ (MantissaBits + k) THEN k ELSE exponent(n, k + 1)

\* the float nearest to the number n >= 0, ties to the even mantissa
fl(n) ==
  LET k == exponent(n, 0)
      q == n \div (2 ^ k)
      r == n % (2 ^ k)
  IN  IF k = 0 THEN n
      ELSE IF 2 * r < 2 ^ k THEN q * 2 ^ k
      ELSE IF 2 * r > 2 ^ k THEN (q + 1) * 2 ^ k
      ELSE IF q % 2 = 0 THEN q * 2 ^ k
      ELSE (q + 1) * 2 ^ k

\* float addition and subtraction, rounded
fadd(a, b) == fl(a + b)

fsub(a, b) == IF a >= b THEN fl(a - b) ELSE 0 - fl(b - a)

\* the coordinates of the elements: the even floats, so that halving is exact
Floats == {n \in 0 .. MaxFloat : fl(n) = n /\ n % 2 = 0}

\* BoundingBox with float coordinates: width and height are rounded differences
FloatBox(x0, x1, y0, y1) ==
  IF x1 < x0 \/ y1 < y0
    THEN BoundingBox(x0, x1, y0, y1)
    ELSE [err |-> "none", x0 |-> x0, x1 |-> x1, y0 |-> y0, y1 |-> y1,
          width |-> fsub(x1, x0), height |-> fsub(y1, y0)]

\* tolerance = min(element.bounding_box.height / 2, tolerance) (or width)
float_tolerance(extent, tolerance) == Min(extent \div 2, tolerance)

\* the box a spatial filter builds around the element e on a page of size
\* MaxFloat x MaxFloat
float_strip(op, e, tolerance) ==
  LET th == float_tolerance(e.height, tolerance)
      tw == float_tolerance(e.width, tolerance)
  IN  CASE op = "to_the_right_of" ->
             FloatBox(e.x1, MaxFloat, fadd(e.y0, th), fsub(e.y1, th))
        [] op = "to_the_left_of" ->
             FloatBox(0, e.x0, fadd(e.y0, th), fsub(e.y1, th))
        [] op = "horizontally_in_line_with" ->
             FloatBox(0, MaxFloat, fadd(e.y0, th), fsub(e.y1, th))
        [] op = "below" ->
             FloatBox(fadd(e.x0, tw), fsub(e.x1, tw), 0, e.y0)
        [] op = "above" ->
             FloatBox(fadd(e.x0, tw), fsub(e.x1, tw), e.y1, MaxFloat)
        [] op = "vertically_in_line_with" ->
             FloatBox(fadd(e.x0, tw), fsub(e.x1, tw), 0, MaxFloat)

\* the elements: an extent along one axis, the other axis fixed
FloatElements ==
  LET extents == {ab \in Floats \X Floats : ab[1] <= ab[2]}
  IN  {FloatBox(ab[1], ab[2], 2, 4) : ab \in extents}
        \cup {FloatBox(2, 4, ab[1], ab[2]) : ab \in extents}

FloatTolerances == {0, 2, MaxFloat}

\* the strip construction of a spatial filter
BuildStrip(op, e, tolerance) ==
  Query(op, "strip", List(0, {}), [element |-> e, tolerance |-> tolerance],
        [err |-> float_strip(op, e, tolerance).err, indexes |-> {},
         element |-> NoElement, strip |-> float_strip(op, e, tolerance)])

NextFloat ==
  \/ Drop
  \/ /\ last = Idle
     /\ \E e \in FloatElements, tolerance \in FloatTolerances :
          \/ BuildStrip("to_the_right_of", e, tolerance)
          \/ BuildStrip("to_the_left_of", e, tolerance)
          \/ BuildStrip("horizontally_in_line_with", e, tolerance)
          \/ BuildStrip("below", e, tolerance)
          \/ BuildStrip("above", e, tolerance)
          \/ BuildStrip("vertically_in_line_with", e, tolerance)

SpecFloat == Init /\ [][NextFloat]_vars

(***************************************************************************)
(* The spatial filters on documents whose elements may overlap and whose   *)
(* page numbers may leave a gap (SpecLine)                                 *)
(***************************************************************************)
\* the largest number of elements of such a document
MaxLineElements == 2

\* the extents of an element along one axis (doubled): the whole page, an
\* extent strictly inside it, and one touching its far edge
LineIntervals == {<<0, 20>>, <<8, 12>>, <<16, 20>>}

LineBoxes ==
  {BoundingBox(x[1], x[2], y[1], y[2]) : x \in LineIntervals, y \in LineIntervals}

\* the page numbers of the document: page 2 is missing
LinePages == {1, 3}

LineElements == [bounding_box : LineBoxes, page_number : LinePages]

\* PDFDocument.__init__: pages in the order of their numbers, the elements of a
\* page in the default element ordering
RECURSIVE LineLayoutsOfLen(_)
LineLayoutsOfLen(n) ==
  IF n = 0 THEN {<<>>}
  ELSE LET key(e) == ordering_key("LEFT_TO_RIGHT_TOP_TO_BOTTOM", e.bounding_box)
           fits(s, e) ==
             /\ \A k \in 1 .. Len(s) : s[k] # e
             /\ \/ s = <<>>
                \/ s[Len(s)].page_number < e.page_number
                \/ /\ s[Len(s)].page_number = e.page_number
                   /\ ~TupleLess(key(e), key(s[Len(s)]))
       IN  {Append(q[1], q[2]) :
              q \in {p \in LineLayoutsOfLen(n - 1) \X LineElements : fits(p[1], p[2])}}

LineLayouts == UNION {LineLayoutsOfLen(n) : n \in 1 .. MaxLineElements}

\* the six spatial filters by name
spatial_filter(op, d, S, x, inclusive, all_pages, tolerance) ==
  CASE op = "to_the_right_of" -> to_the_right_of(d, S, x, inclusive, tolerance)
    [] op = "to_the_left_of" -> to_the_left_of(d, S, x, inclusive, tolerance)
    [] op = "horizontally_in_line_with" ->
         horizontally_in_line_with(d, S, x, inclusive, tolerance)
    [] op = "below" -> below(d, S, x, inclusive, all_pages, tolerance)
    [] op = "above" -> above(d, S, x, inclusive, all_pages, tolerance)
    [] op = "vertically_in_line_with" ->
         vertically_in_line_with(d, S, x, inclusive, all_pages, tolerance)

\* a call of a spatial filter, all its arguments recorded
SpatialCall(op, S, x, inclusive, all_pages, tolerance) ==
  Query(op, "list", List(TableDocument, S),
        [x |-> x, inclusive |-> inclusive, all_pages |-> all_pages,
         tolerance |-> tolerance],
        spatial_filter(op, TableDocument, S, x, inclusive, all_pages, tolerance))

InitLine ==
  /\ element_list \in LineLayouts
  /\ ignored_indexes = [d \in Docs \cup {TableDocument} |-> {}]
  /\ tags = [d \in Docs |-> [i \in Indexes(d) |-> {}]]
  /\ element_indexes_by_font = [d \in Docs |-> <<>>]
  /\ name_counts = [n \in Names |-> 0]
  /\ sections_dict = <<>>
  /\ lists = {}
  /\ last = Idle

NextLine ==
  \/ Drop
  \/ /\ last = Idle
     /\ \E S \in SUBSET Indexes(TableDocument), x \in Indexes(TableDocument),
           inclusive \in BOOLEAN, tolerance \in Tolerances :
          \/ SpatialCall("to_the_right_of", S, x, inclusive, FALSE, tolerance)
          \/ SpatialCall("to_the_left_of", S, x, inclusive, FALSE, tolerance)
          \/ SpatialCall("horizontally_in_line_with", S, x, inclusive, FALSE, tolerance)
          \/ \E all_pages \in BOOLEAN :
               \/ SpatialCall("below", S, x, inclusive, all_pages, tolerance)
               \/ SpatialCall("above", S, x, inclusive, all_pages, tolerance)
               \/ SpatialCall("vertically_in_line_with", S, x, inclusive, all_pages,
                              tolerance)

SpecLine == InitLine /\ [][NextLine]_vars

(***************************************************************************)
(* extract_table with repair, one loop iteration of _fix_rows / _fix_cols  *)
(* per step (specification SpecRepair)                                     *)
(***************************************************************************)
\* _fix_rows / _fix_cols on entry: the early return when no element is in
\* several groups leaves the loop over the elements finished, otherwise the
\* groups are sorted and the loop starts at the first element; k is the position
\* in "for element in elements", x the element found in several groups and
\* others what is left of "for row in sorted_rows_with_element[1:]"
enter_fix(d, groups, S, axis, order) ==
  IF ~in_multiple(groups)
    THEN [err |-> "none", groups |-> groups, sorted |-> <<>>,
          k |-> Len(sorted(S)) + 1, x |-> None, others |-> <<>>]
    ELSE [err |-> "none", groups |-> groups,
          sorted |-> sorted_by_key(d, iteration(groups, order), axis),
          k |-> 1, x |-> None, others |-> <<>>]

\* an iteration of "for element in elements" that leaves the loop where it is
same_element(d, loop, xs) == loop

\* one iteration of "for element in elements" up to the inner loop
next_element(d, loop, xs) ==
  LET x == xs[loop.k]
      with == {g \in loop.groups : x \in g}
  IN  IF Cardinality(with) <= 1 THEN [loop EXCEPT !.k = @ + 1]
      ELSE IF \E g \in with : g \notin Range(loop.sorted)
        THEN [loop EXCEPT !.err = "ValueError"]
      ELSE [loop EXCEPT !.k = @ + 1, !.x = x,
                        !.others = Tail(sorted_with_element(loop, x))]

\* one iteration of "for row in sorted_rows_with_element[1:]"
one_strip(d, loop) ==
  LET st == strip_from(d, loop, loop.x, <<Head(loop.others)>>, 1)
  IN  [loop EXCEPT !.err = st.err, !.groups = st.groups, !.sorted = st.sorted,
                   !.others = Tail(@)]

\* the rows and columns extract_table collects before any repair
rows_found(d, S, tolerance) == set_of(rows_in_line_with(d, S, sorted(S), tolerance))

cols_found(d, S, tolerance) == set_of(cols_in_line_with(d, S, sorted(S), tolerance))

\* extract_table is inside _fix_rows or _fix_cols
Running == last.op = "extract_table" /\ last.returns = "running"

\* extract_table(elements, fix_element_in_multiple_rows=..,
\* fix_element_in_multiple_cols=..) up to the entry of the first repair
EnterExtractTable(S, fix_rows, fix_cols, tolerance, order) ==
  LET d == TableDocument
      in_rows == rows_in_line_with(d, S, sorted(S), tolerance)
      in_cols == cols_in_line_with(d, S, sorted(S), tolerance)
      raised == \E k \in 1 .. Len(in_rows) :
                  in_rows[k].err # "none" \/ in_cols[k].err # "none"
      axis == IF fix_rows THEN "rows" ELSE "cols"
      args == [fix_element_in_multiple_rows |-> fix_rows,
               fix_element_in_multiple_cols |-> fix_cols,
               tolerance |-> tolerance, order |-> order]
  IN  /\ last = Idle
      /\ fix_rows \/ fix_cols
      /\ IF raised
           THEN Query("extract_table", "table", List(d, S), args,
                      extract_table(d, S, fix_rows, fix_cols, tolerance, order))
           ELSE Query("extract_table", "running", List(d, S), args,
                      [err |-> "none", indexes |-> {}, element |-> NoElement,
                       axis |-> axis,
                       loop |-> enter_fix(d, IF fix_rows THEN set_of(in_rows)
                                             ELSE set_of(in_cols), S, axis, order),
                       rows |-> set_of(in_rows), steps |-> 0])

\* _fix_rows / _fix_cols: for element in elements
ForElement ==
  /\ Running
  /\ last.out.loop.err = "none"
  /\ last.out.loop.others = <<>>
  /\ last.out.loop.k <= Len(sorted(last.recv))
  /\ last' = [last EXCEPT !.out.loop = next_element(last.doc, @, sorted(last.recv))]
  /\ UNCHANGED <<element_list, ignored_indexes, tags, element_indexes_by_font, name_counts,
                 sections_dict, lists>>

\* _fix_rows / _fix_cols: for row in sorted_rows_with_element[1:]
ForRow ==
  /\ Running
  /\ last.out.loop.err = "none"
  /\ last.out.loop.others # <<>>
  /\ last' = [last EXCEPT !.out.loop = one_strip(last.doc, @), !.out.steps = @ + 1]
  /\ UNCHANGED <<element_list, ignored_indexes, tags, element_indexes_by_font, name_counts,
                 sections_dict, lists>>

\* _fix_rows / _fix_cols returns or raises: extract_table goes on with
\* _fix_cols, or builds the table; call is the call record
after_fix(d, call) ==
  LET loop == call.out.loop
      rows == IF call.out.axis = "rows" THEN loop.groups ELSE call.out.rows
      cols == IF call.out.axis = "cols" THEN loop.groups
              ELSE cols_found(d, call.recv, call.args.tolerance)
  IN  IF loop.err # "none"
        THEN [call EXCEPT !.returns = "table", !.out = Raise(loop.err)]
      ELSE IF call.out.axis = "rows" /\ call.args.fix_element_in_multiple_cols
        THEN [call EXCEPT !.out.axis = "cols", !.out.rows = loop.groups,
                          !.out.loop = enter_fix(d, cols, call.recv, "cols",
                                                 call.args.order)]
      ELSE [call EXCEPT !.returns = "table",
                        !.out = table_from(d, rows, cols, call.args.order)]

FixReturns ==
  /\ Running
  /\ \/ last.out.loop.err # "none"
     \/ last.out.loop.others = <<>> /\ last.out.loop.k > Len(sorted(last.recv))
  /\ last' = after_fix(last.doc, last)
  /\ UNCHANGED <<element_list, ignored_indexes, tags, element_indexes_by_font, name_counts,
                 sections_dict, lists>>

RepairStep == ForElement \/ ForRow \/ FixReturns

NextRepair ==
  \/ ~Running /\ Drop
  \/ \E S \in TableInputs, tolerance \in 0 .. MaxTolerance, order \in SetOrders,
        fix_rows \in BOOLEAN, fix_cols \in BOOLEAN :
       EnterExtractTable(S, fix_rows, fix_cols, tolerance, order)
  \/ ForElement
  \/ ForRow
  \/ FixReturns

\* the layouts the repairs are run on
MaxRepairElements == 3

RepairLayouts == UNION {LayoutsOfLen(n) : n \in 0 .. MaxRepairElements} \cup TwoPageLayouts

InitRepair == InitTab /\ element_list \in RepairLayouts

\* the interpreter goes on running a call it has entered: weak fairness of
\* RepairStep, written out with Running for ENABLED <<RepairStep>>_vars (a
\* running call is at one of the three steps, and each of them changes last)
SpecRepair ==
  InitRepair /\ [][NextRepair]_vars /\ ([]<>(~Running) \/ []<><<RepairStep>>_vars)

(***************************************************************************)
(* The repairs under both iteration orders of the sets of rows and columns *)
(* (specification SpecOrder)                                               *)
(***************************************************************************)
\* the largest tolerance passed with a repair flag
MaxRepairTolerance == 3

NextOrder ==
  \/ Drop
  \/ /\ last = Idle
     /\ \E S \in TableInputs, tolerance \in 0 .. MaxRepairTolerance, order \in SetOrders :
          \/ FixRows(S, tolerance, order)
          \/ FixCols(S, tolerance, order)
          \/ \E fix_rows \in BOOLEAN, fix_cols \in BOOLEAN :
               ExtractTable(S, fix_rows, fix_cols, tolerance, order)

SpecOrder == InitRepair /\ [][NextOrder]_vars

\* ---------------------------------------------------------------------------
\* Properties of the ElementList engine (specification Spec)
\* ---------------------------------------------------------------------------

\* the last call returned an ElementList
ReturnedList == last.returns = "list" /\ last.out.err = "none"

\* the elements of the receiver's document that are ignored now
IgnoredNow == ignored_indexes[last.doc]

\* C1: ignoring an element changes no ElementList that already exists (a kept
\* list still has the index set it was constructed with), and an ElementList
\* constructed after the ignore never contains the ignored element.
C1_IgnoreSparesExistingLists ==
  /\ \A l \in lists : l.indexes = l.constructed
  /\ ReturnedList => \A i \in IgnoredNow : i \notin last.out.indexes

\* C1 case: a kept list still holds an element ignored after its construction
\* while document.elements, constructed after the ignore, lacks it
C1_Witness ==
  /\ last.op = "elements"
  /\ \E l \in lists : l.indexes \cap ignored_indexes[l.document] # {}
  /\ last.out.indexes # {}

\* the operations of an ElementList that return an ElementList
ListOperations ==
  {"filter_by_tag", "filter_by_tags", "filter_by_text_equal",
   "filter_by_text_contains", "filter_by_regex", "filter_by_fonts",
   "filter_by_font", "filter_by_page", "filter_by_pages",
   "filter_partially_within_bounding_box", "to_the_right_of", "to_the_left_of",
   "below", "above", "vertically_in_line_with", "horizontally_in_line_with",
   "before", "after", "between", "add_element", "add_elements",
   "remove_element", "remove_elements", "getitem_slice",
   "sub", "or", "xor", "and"}

SetAlgebraOfOperands ==
  LET A == last.recv
      B == last.args.other
      R == last.out.indexes
  IN  /\ last.op = "and" => R \subseteq A /\ R \subseteq B
      /\ last.op = "sub" => R \cap B = {}
      /\ last.op = "xor" =>
           R = Sub(last.doc, Or(last.doc, A, B), And(last.doc, A, B))

\* C3 as stated: for lists A and B of one document, at any point of their
\* lifetime, (A & B) is within A and within B, (A | B) contains A, (A - B)
\* shares nothing with B, and (A ^ B) equals (A | B) - (A & B).
C3_SetAlgebraAsStated ==
  last.op \in {"and", "or", "sub", "xor"} =>
     /\ SetAlgebraOfOperands
     /\ last.op = "or" => last.recv \subseteq last.out.indexes

\* C3: as above, but (A | B) contains the members of A that are not ignored at
\* the time of the operation (all of A when none of them has been ignored).
C3_SetAlgebra ==
  last.op \in {"and", "or", "sub", "xor"} =>
     /\ SetAlgebraOfOperands
     /\ last.op = "or" => (last.recv \ IgnoredNow) \subseteq last.out.indexes
     /\ (last.op = "or" /\ last.recv \cap IgnoredNow = {}) =>
          last.recv \subseteq last.out.indexes

\* C3 case: a union whose left operand holds an element ignored since
C3_Witness ==
  /\ last.op = "or"
  /\ last.recv \cap IgnoredNow # {}
  /\ last.recv \ IgnoredNow # {}

\* the filter methods of an ElementList
FilterMethods ==
  {"filter_by_tag", "filter_by_tags", "filter_by_text_equal",
   "filter_by_text_contains", "filter_by_regex", "filter_by_fonts",
   "filter_by_font", "filter_by_page", "filter_by_pages",
   "filter_partially_within_bounding_box", "to_the_right_of", "to_the_left_of",
   "below", "above", "vertically_in_line_with", "horizontally_in_line_with",
   "before", "after", "between"}

C5_OrderFilters ==
  (last.op \in {"before", "after", "between"} /\ last.recv \cap IgnoredNow = {}) =>
     LET lo == IF last.op = "before" THEN 0 - 1 ELSE last.args.x
         hi == IF last.op = "after" THEN DocLen
               ELSE IF last.op = "before" THEN last.args.x ELSE last.args.y
         bounds == IF last.op = "between" THEN {last.args.x, last.args.y}
                   ELSE {last.args.x}
     IN  /\ last.out.err = "none"
         /\ last.out.indexes =
              {i \in last.recv :
                 \/ lo < i /\ i < hi
                 \/ last.args.inclusive /\ i \in bounds}

\* the number of members of S before x in the document's order
PositionIn(S, x) == Cardinality({m \in S : m < x})

\* C6: move_forwards_from(x, count) on a list of n members with x at position
\* p returns the member at position p + count when that is within 0 .. n-1;
\* otherwise the nearest end when capped, ElementOutOfRangeError when not.
\* move_backwards_from(x, count) does the same with p - count.
C6_Moves ==
  (last.op \in {"move_forwards_from", "move_backwards_from"}
     /\ last.args.x \in last.recv) =>
     LET n == Cardinality(last.recv)
         p == PositionIn(last.recv, last.args.x)
         q == IF last.op = "move_forwards_from" THEN p + last.args.count
              ELSE p - last.args.count
         target == IF q < 0 THEN 0 ELSE IF q > n - 1 THEN n - 1 ELSE q
     IN  IF (q < 0 \/ q > n - 1) /\ ~last.args.capped
           THEN last.out.err = "ElementOutOfRangeError"
           ELSE /\ last.out.err = "none"
                /\ last.out.element \in last.recv
                /\ PositionIn(last.recv, last.out.element) = target

\* C6 case: a capped move backwards past the start of a list of several members
C6_Witness ==
  /\ last.op = "move_backwards_from"
  /\ last.args.x \in last.recv
  /\ last.args.capped
  /\ PositionIn(last.recv, last.args.x) - last.args.count < 0
  /\ Cardinality(last.recv) > 1
  /\ last.out.element = SetMin(last.recv)

\* the six spatial filters
SpatialFilters ==
  {"to_the_right_of", "to_the_left_of", "above", "below",
   "vertically_in_line_with", "horizontally_in_line_with"}

\* C15: a spatial filter called with inclusive=False returns a list without
\* the reference element x; called with inclusive=True it returns a list with
\* x whenever x is a member of the receiver and not ignored.
C15_Inclusive ==
  (last.op \in SpatialFilters /\ ReturnedList) =>
     /\ ~last.args.inclusive => last.args.x \notin last.out.indexes
     /\ (last.args.inclusive /\ last.args.x \in last.recv \ IgnoredNow) =>
          last.args.x \in last.out.indexes

\* C15 case: an inclusive call whose result holds x and another element, on a
\* receiver one of whose members has been ignored
C15_Witness ==
  /\ last.op \in SpatialFilters
  /\ ReturnedList
  /\ last.args.inclusive
  /\ last.args.x \in last.out.indexes
  /\ Cardinality(last.out.indexes) > 1
  /\ last.recv \cap IgnoredNow # {}

\* ---------------------------------------------------------------------------
\* Properties of sectioning (specification SpecSec)
\* ---------------------------------------------------------------------------

\* C7: the k-th section (from 0) created with a name in a document's
\* sectioning is registered under the name, an underscore and k, and every
\* creation adds one entry to the registry.
C7_UniqueNames ==
  /\ \A u \in DOMAIN sections_dict :
       /\ sections_dict[u].unique_name = u
       /\ u = unique_name_of(sections_dict[u].name, sections_dict[u].nth)
  /\ Cardinality(DOMAIN sections_dict) = NumCreated

\* C8: filter_by_section_name(n) on a list R returns the members of R within
\* the range of some section of R's document named n.
C8_FilterBySectionName ==
  last.op = "filter_by_section_name" =>
     /\ last.out.err = "none"
     /\ last.out.indexes =
          {i \in last.recv :
             \E sec \in sections :
               /\ sec.document = last.doc
               /\ {sec.name} = last.args.names
               /\ sec.start_element <= i /\ i <= sec.end_element}

\* C9: create_section raises InvalidSectionError when the end element comes
\* before the start element in the document's order.
C9_InvalidSection ==
  (last.op = "create_section" /\ last.args.end_element < last.args.start_element)
     => last.out.err = "InvalidSectionError"

C11_SectionMembership ==
  last.op = "section_contains" =>
     (last.out.value <=>
        last.args.x \in section_elements(sections_dict[last.args.unique_name]))

\* C12: filter_by_section and filter_by_sections never raise for a unique name
\* that is not registered; the result is the receiver intersected with the
\* union of the named sections that exist (empty if none does).
C12_UnknownSections ==
  last.op \in {"filter_by_section", "filter_by_sections"} =>
     /\ last.out.err = "none"
     /\ last.out.indexes =
          last.recv \cap
            UNION {section_elements(sections_dict[u]) :
                     u \in last.args.names \cap DOMAIN sections_dict}

\* ---------------------------------------------------------------------------
\* Properties of the construction of a document (specification SpecBuild)
\* ---------------------------------------------------------------------------

\* the document the last call constructed
Built == last.out

\* the elements the loader put on page p, in the order it listed them
Loaded(p) ==
  LET pg == CHOOSE q \in Range(last.args.pages) : q.page_number = p
  IN  pg.elements

\* C13: in a successfully constructed document of N elements the element at
\* position i has index i; page numbers ascend along the list; the elements of
\* each page fill one index range first..last, in the order of the ordering
\* function; the ranges are disjoint and cover 0..N-1; and an element's
\* page_number is the page whose range holds its index.
C13_DocumentLayout ==
  (last.op = "PDFDocument" /\ Built.err = "none") =>
     LET N == Len(Built.element_list)
         el(i) == Built.element_list[i + 1]
         key(i) == ordering_key(last.args.element_ordering, el(i).original_element)
     IN  /\ \A i \in 0 .. N - 1 : el(i).index = i
         /\ \A i, j \in 0 .. N - 1 : i < j => el(i).page_number <= el(j).page_number
         /\ {pg.page_number : pg \in Built.pages} =
              {q.page_number : q \in Range(last.args.pages)}
         /\ \A pg \in Built.pages :
              /\ pg.start_element <= pg.end_element
              /\ pg.start_element .. pg.end_element =
                   {i \in 0 .. N - 1 : el(i).page_number = pg.page_number}
              /\ {el(i).original_element : i \in pg.start_element .. pg.end_element}
                   = Range(Loaded(pg.page_number))
              /\ pg.end_element - pg.start_element + 1 = Len(Loaded(pg.page_number))
              /\ \A i, j \in pg.start_element .. pg.end_element :
                   i < j => ~TupleLess(key(j), key(i))
         /\ \A pg, qg \in Built.pages :
              pg # qg => (pg.start_element .. pg.end_element)
                           \cap (qg.start_element .. qg.end_element) = {}
         /\ UNION {pg.start_element .. pg.end_element : pg \in Built.pages}
              = 0 .. N - 1

\* C13 case: two pages handed over in descending page-number order, the later
\* one holding two elements listed against the ordering
C13_Witness ==
  /\ last.op = "PDFDocument"
  /\ Built.err = "none"
  /\ Len(last.args.pages) = 2
  /\ last.args.pages[1].page_number > last.args.pages[2].page_number
  /\ \E k \in 1 .. 2 :
       /\ Len(last.args.pages[k].elements) = 2
       /\ sort_func(last.args.element_ordering, last.args.pages[k].elements)
            # last.args.pages[k].elements

\* ---------------------------------------------------------------------------
\* Properties of the geometric predicates (specification SpecGeom)
\* ---------------------------------------------------------------------------

\* the points with integer coordinates of a box
Points(b) == {<<px, py>> \in (b.x0 .. b.x1) \X (b.y0 .. b.y1) : TRUE}

\* C14: for an element box E and a query box B with integer coordinates,
\* partially_within(B) holds exactly when B.x0<=E.x1, B.x1>=E.x0, B.y0<=E.y1 and
\* B.y1>=E.y0, that is when the boxes share a point (touching edges count);
\* entirely_within(B) holds exactly when all four edges of E lie within B,
\* that is when every point of E is in B; so entirely implies partially, and
\* a box strictly inside the element is partially but not entirely within.
C14_Within ==
  last.op \in {"partially_within", "entirely_within"} =>
     LET E == last.args.element
         B == last.args.box
         overlap == /\ B.x0 <= E.x1 /\ B.x1 >= E.x0
                    /\ B.y0 <= E.y1 /\ B.y1 >= E.y0
         inside == /\ E.x0 >= B.x0 /\ E.x1 <= B.x1
                   /\ E.y0 >= B.y0 /\ E.y1 <= B.y1
         strictly_inside == /\ E.x0 < B.x0 /\ B.x1 < E.x1
                            /\ E.y0 < B.y0 /\ B.y1 < E.y1
     IN  /\ last.op = "partially_within" =>
              /\ last.out.value <=> overlap
              /\ last.out.value <=> (Points(E) \cap Points(B) # {})
              /\ strictly_inside => last.out.value
         /\ last.op = "entirely_within" =>
              /\ last.out.value <=> inside
              /\ last.out.value <=> (Points(E) \subseteq Points(B))
              /\ last.out.value => box_partially_within(E, B)
              /\ strictly_inside => ~last.out.value

\* C14 case: the query box only touches the element's box at a corner
C14_Witness ==
  /\ last.op = "partially_within"
  /\ last.args.box.x0 = last.args.element.x1
  /\ last.args.box.y0 = last.args.element.y1
  /\ last.args.box.x1 > last.args.box.x0
  /\ last.out.value

\* ---------------------------------------------------------------------------
\* Properties of the tables (specification SpecTab)
\* ---------------------------------------------------------------------------

\* two elements of the table document overlap vertically / horizontally
VOverlap(i, j) ==
  /\ bounding_box(TableDocument, i).y0 <= bounding_box(TableDocument, j).y1
  /\ bounding_box(TableDocument, j).y0 <= bounding_box(TableDocument, i).y1

HOverlap(i, j) ==
  /\ bounding_box(TableDocument, i).x0 <= bounding_box(TableDocument, j).x1
  /\ bounding_box(TableDocument, j).x0 <= bounding_box(TableDocument, i).x1

GridRow(S, i) == {j \in S : VOverlap(i, j)}

GridCol(S, i) == {j \in S : HOverlap(i, j)}

\* the elements S form a full grid: the rows and the columns partition S and
\* every row meets every column in one element
FullGrid(S) ==
  /\ S # {}
  /\ \A i \in S : \A j \in GridRow(S, i) : GridRow(S, j) = GridRow(S, i)
  /\ \A i \in S : \A j \in GridCol(S, i) : GridCol(S, j) = GridCol(S, i)
  /\ \A i \in S : \A j \in S : Cardinality(GridRow(S, i) \cap GridCol(S, j)) = 1

\* the r-th row of a full grid from the top, the c-th column from the left
RowFromTop(S, r) ==
  CHOOSE g \in {GridRow(S, i) : i \in S} :
    Cardinality({h \in {GridRow(S, i) : i \in S} :
       bounding_box(TableDocument, SetMin(h)).y0 >
         bounding_box(TableDocument, SetMin(g)).y0}) = r - 1

ColFromLeft(S, c) ==
  CHOOSE g \in {GridCol(S, i) : i \in S} :
    Cardinality({h \in {GridCol(S, i) : i \in S} :
       bounding_box(TableDocument, SetMin(h)).x0 <
         bounding_box(TableDocument, SetMin(g)).x0}) = c - 1

\* the row-major grid of a full grid
RowMajor(S) ==
  [r \in 1 .. Cardinality({GridRow(S, i) : i \in S}) |->
     [c \in 1 .. Cardinality({GridCol(S, i) : i \in S}) |->
        CHOOSE i \in RowFromTop(S, r) \cap ColFromLeft(S, c) : TRUE]]

\* a call of a table function with the default reference element
TableCall(op) ==
  /\ last.op = op
  /\ op = "extract_simple_table" => last.args.reference_element = None

\* C16: on a full grid of R x C elements extract_simple_table and extract_table
\* both return the R x C row-major grid, rows top to bottom and columns left
\* to right
C16_SameGrid ==
  \A op \in {"extract_simple_table", "extract_table"} :
    TableCall(op) /\ FullGrid(last.recv) => last.out = OkTable(RowMajor(last.recv))

\* extract_table alone returns the row-major grid of a full grid
C16_General ==
  TableCall("extract_table") /\ FullGrid(last.recv)
    => last.out = OkTable(RowMajor(last.recv))

\* a 2 x 2 full grid read by extract_simple_table
C16_Witness ==
  /\ TableCall("extract_simple_table")
  /\ FullGrid(last.recv)
  /\ Cardinality(last.recv) = 4
  /\ Cardinality(GridRow(last.recv, 0)) = 2

\* the positions of a returned table that hold the element x
CellsOf(table, x) ==
  {rc \in (1 .. Len(table)) \X (1 .. MaxTableElements) :
     rc[2] <= Len(table[rc[1]]) /\ table[rc[1]][rc[2]] = x}

\* C17: a grid returned by extract_simple_table has as many populated cells as
\* there are input elements and holds every input element exactly once; a call
\* that does not return a grid of this kind raises TableExtractionError
C17_AllOrNothing ==
  last.op = "extract_simple_table" /\ last.recv # {} =>
    \/ last.out.err = "TableExtractionError"
    \/ /\ last.out.err = "none"
       /\ table_size(last.out.table) = Cardinality(last.recv)
       /\ \A x \in last.recv : Cardinality(CellsOf(last.out.table, x)) = 1

\* the row-sets and the column-sets of the last call of extract_table
RowSets ==
  set_of(rows_in_line_with(TableDocument, last.recv, sorted(last.recv),
                           last.args.tolerance))

ColSets ==
  set_of(cols_in_line_with(TableDocument, last.recv, sorted(last.recv),
                           last.args.tolerance))

\* some element is in two distinct groups
InTwo(groups) ==
  \E x \in last.recv : Cardinality({g \in groups : x \in g}) > 1

\* a call of extract_table without repair flags
Unrepaired ==
  /\ last.op = "extract_table"
  /\ ~last.args.fix_element_in_multiple_rows
  /\ ~last.args.fix_element_in_multiple_cols

\* C18: without repair flags extract_table raises TableExtractionError when an
\* input element is in two distinct row-sets or in two distinct column-sets,
\* and a grid it returns holds no element in two cells
C18_ConflictsRaise ==
  Unrepaired =>
    /\ InTwo(RowSets) \/ InTwo(ColSets) => last.out.err = "TableExtractionError"
    /\ last.out.err = "none" =>
         \A x \in last.recv : Cardinality(CellsOf(last.out.table, x)) = 1

\* extract_table raised for an element in two row-sets, the column-sets being
\* disjoint
C18_Witness ==
  /\ Unrepaired
  /\ InTwo(RowSets)
  /\ ~InTwo(ColSets)
  /\ last.out.err = "TableExtractionError"

\* a call of _fix_rows or _fix_cols, and the axis it works on
Repair == last.op \in {"_fix_rows", "_fix_cols"}

Axis == IF last.op = "_fix_rows" THEN "rows" ELSE "cols"

\* the groups handed to the repair
GroupsBefore == IF last.op = "_fix_rows" THEN RowSets ELSE ColSets

\* the groups before the repair that hold x and of which none holding x comes
\* strictly first, topmost for rows and leftmost for columns
FirstOf(x) ==
  {g \in GroupsBefore :
     /\ x \in g
     /\ \A h \in GroupsBefore :
          x \in h => ~TupleLess(group_key(TableDocument, h, Axis),
                                group_key(TableDocument, g, Axis))}

RowElements(table, r) ==
  {table[r][c] : c \in 1 .. Len(table[r])} \ {None}

ColElements(table, c) ==
  {table[r][c] : r \in {q \in 1 .. Len(table) : c <= Len(table[q])}} \ {None}

\* (page number, topmost edge) of a set of elements, smaller for a row higher up
TopEdge(xs) ==
  <<page_number(TableDocument, SetMin(xs)),
    0 - SetMax({bounding_box(TableDocument, i).y1 : i \in xs})>>

\* the leftmost edge of a set of elements
LeftEdge(xs) == SetMin({bounding_box(TableDocument, i).x0 : i \in xs})

\* extract_table returned a grid
GridReturned == last.op = "extract_table" /\ last.out.err = "none"

StripBuilt == last.returns = "strip"

\* the filters whose band runs along y, between the bottom and the top of the
\* element
YBand == {"to_the_right_of", "to_the_left_of", "horizontally_in_line_with"}

\* the extent of the element across the band, and the ends of the band built
BandExtent ==
  IF last.op \in YBand THEN last.args.element.height ELSE last.args.element.width

BandLo == IF last.op \in YBand THEN last.out.strip.y0 ELSE last.out.strip.x0

BandHi == IF last.op \in YBand THEN last.out.strip.y1 ELSE last.out.strip.x1

\* C22: the strip of a spatial filter is built with the tolerance
\* min(tolerance, extent / 2); for every tolerance >= 0 its construction does
\* not fail and the band is not inverted
C22_Band ==
  StripBuilt =>
    /\ last.out.err = "none"
    /\ BandLo <= BandHi

\* the band of the centre line: a tolerance of at least half the extent
C22_Witness ==
  /\ StripBuilt
  /\ last.args.tolerance >= BandExtent
  /\ BandExtent > 0
  /\ last.out.err = "none"
  /\ BandLo = BandHi

\* ---------------------------------------------------------------------------
\* Properties of the spatial filters (specification SpecLine)
\* ---------------------------------------------------------------------------

\* the outcome of another spatial filter called on the same receiver with the
\* same arguments
SameCall(op) ==
  spatial_filter(op, TableDocument, last.recv, last.args.x, last.args.inclusive,
                 last.args.all_pages, last.args.tolerance)

\* the union of the ElementLists two calls returned
UnionOf(a, b) == Or(TableDocument, a.indexes, b.indexes)

\* C23: horizontally_in_line_with(x, ...) equals
\* to_the_left_of(x, ...) | to_the_right_of(x, ...) with the same arguments
C23_LeftOrRight ==
  last.op = "horizontally_in_line_with" =>
    /\ last.out.err = "none"
    /\ SameCall("to_the_left_of").err = "none"
    /\ SameCall("to_the_right_of").err = "none"
    /\ last.out.indexes =
         UnionOf(SameCall("to_the_left_of"), SameCall("to_the_right_of"))

\* the same for a reference element that no other element lies strictly
\* inside of, horizontally
C23_NoneInside ==
  /\ last.op = "horizontally_in_line_with"
  /\ \A i \in last.recv \ {last.args.x} :
       ~(/\ bounding_box(TableDocument, last.args.x).x0 < bounding_box(TableDocument, i).x0
         /\ bounding_box(TableDocument, i).x1 < bounding_box(TableDocument, last.args.x).x1)
  => last.out.indexes =
       UnionOf(SameCall("to_the_left_of"), SameCall("to_the_right_of"))

\* C24: vertically_in_line_with(x, ...) returns without raising, whatever the
\* page numbers of the document, and equals above(x, ...) | below(x, ...) with
\* the same arguments
C24_AboveOrBelow ==
  last.op = "vertically_in_line_with" =>
    /\ last.out.err = "none"
    /\ SameCall("above").err = "none"
    /\ SameCall("below").err = "none"
    /\ last.out.indexes = UnionOf(SameCall("above"), SameCall("below"))

\* vertically_in_line_with on the page of x alone does not raise
C24_OnePage ==
  last.op = "vertically_in_line_with" /\ ~last.args.all_pages => last.out.err = "none"

\* ---------------------------------------------------------------------------
\* Properties of the headers (specification SpecHeader)
\* ---------------------------------------------------------------------------

\* a call of add_header_to_table on a rectangular table
HeaderCall ==
  /\ last.op = "add_header_to_table"
  /\ _validate_table_shape(last.args.table).err = "none"

\* the header the call uses: the one passed, or the first row of the table
HeaderUsed ==
  IF ~last.args.header.is_none THEN last.args.header.labels
  ELSE IF last.args.table = <<>> THEN <<>> ELSE last.args.table[1]

\* the header has another length than the rows of the table (a table without
\* rows has no width), or repeats a label
BadHeader ==
  \/ last.args.table # <<>> /\ Len(HeaderUsed) # Len(last.args.table[1])
  \/ Len(HeaderUsed) # Cardinality(Range(HeaderUsed))

\* the rows the dicts are made of: all of them for a header passed explicitly,
\* all but the first otherwise
DataRows ==
  IF ~last.args.header.is_none \/ last.args.table = <<>> THEN last.args.table
  ELSE Tail(last.args.table)

\* the call returned one dict per data row, header[i] mapped to row[i], and
\* left the table as it was
DictsReturned ==
  /\ last.out.err = "none"
  /\ last.out.table = last.args.table
  /\ Len(last.out.new_table) = Len(DataRows)
  /\ \A r \in 1 .. Len(DataRows) :
       /\ DOMAIN last.out.new_table[r] = Range(HeaderUsed)
       /\ \A i \in 1 .. Len(HeaderUsed) :
            last.out.new_table[r][HeaderUsed[i]] = DataRows[r][i]

\* C20: add_header_to_table raises InvalidTableHeaderError for a header of
\* another length than the width of the table or with a repeated label, and
\* otherwise returns one dict per data row and leaves the table unmodified
C20_Header ==
  HeaderCall =>
    IF BadHeader THEN last.out.err = "InvalidTableHeaderError" ELSE DictsReturned

\* the same for a table with rows and a header that is not the empty list
C20_NonEmpty ==
  HeaderCall /\ last.args.table # <<>> /\ HeaderUsed # <<>> =>
    IF BadHeader THEN last.out.err = "InvalidTableHeaderError" ELSE DictsReturned

\* an explicit header zipped onto two rows
C20_Witness ==
  /\ HeaderCall
  /\ ~last.args.header.is_none
  /\ Len(last.args.table) = 2
  /\ Len(HeaderUsed) = 2
  /\ ~BadHeader
  /\ DictsReturned

\* ---------------------------------------------------------------------------
\* Properties of the font cache (specification Spec)
\* ---------------------------------------------------------------------------
FontFilters == {"filter_by_font", "filter_by_fonts"}

\* the fonts that some element of document d has
FontsPresent(d) == {font(d, i) : i \in Indexes(d)}

\* the font cache of d has an entry for every font present in d
CacheComplete(d) ==
  /\ FontsPresent(d) \subseteq DOMAIN element_indexes_by_font[d]
  /\ \A f \in FontsPresent(d) :
       element_indexes_by_font[d][f] = {i \in Indexes(d) : font(d, i) = f}

\* a step that is a font filter on d naming a font key not yet in the cache
FirstFontFilter(d) ==
  /\ last'.op \in FontFilters
  /\ last'.doc = d
  /\ \E f \in last'.args.fonts : f \notin DOMAIN element_indexes_by_font[d]

C25_CachesRequested ==
  [][\A d \in Docs :
       /\ \A f \in DOMAIN element_indexes_by_font[d] :
            /\ f \in DOMAIN element_indexes_by_font'[d]
            /\ element_indexes_by_font'[d][f] = element_indexes_by_font[d][f]
       /\ \A f \in DOMAIN element_indexes_by_font'[d] :
            f \notin DOMAIN element_indexes_by_font[d] =>
              /\ last'.op \in FontFilters
              /\ f \in last'.args.fonts \cap FontsPresent(d)]_vars


\* ---------------------------------------------------------------------------
\* Properties of the repair loops (specification SpecRepair)
\* ---------------------------------------------------------------------------
\* the memberships (element, group) the repairs still to finish start from
Memberships ==
  LET loop == last.out.loop
      cols == cols_found(last.doc, last.recv, last.args.tolerance)
  IN  sum_len(loop.groups)
        + (IF last.out.axis = "rows" /\ last.args.fix_element_in_multiple_cols
             THEN sum_len(cols) ELSE 0)

\* the memberships the call started with in the groups it is to repair
MembershipsFound ==
  LET rows == rows_found(last.doc, last.recv, last.args.tolerance)
      cols == cols_found(last.doc, last.recv, last.args.tolerance)
  IN  (IF last.args.fix_element_in_multiple_rows THEN sum_len(rows) ELSE 0)
        + (IF last.args.fix_element_in_multiple_cols THEN sum_len(cols) ELSE 0)

\* every strip step takes at least one membership away
StripsBounded == Running => last.out.steps + Memberships <= MembershipsFound

\* a running call is at a step that changes its position
StepsAdvance ==
  LET loop == last.out.loop
  IN  Running =>
        IF loop.err # "none" \/ (loop.others = <<>> /\ loop.k > Len(sorted(last.recv)))
          THEN after_fix(last.doc, last) # last
        ELSE IF loop.others # <<>> THEN one_strip(last.doc, loop) # loop
        ELSE next_element(last.doc, loop, sorted(last.recv)) # loop

\* an extract_table call with a repair flag has returned a grid or raised
RepairReturned ==
  /\ last.op = "extract_table"
  /\ last.returns = "table"
  /\ \/ last.out.err = "none" /\ last.out = OkTable(last.out.table)
     \/ last.out.err # "none" /\ last.out = Raise(last.out.err)

\* C26: extract_table called with a repair flag terminates: the number of strip
\* steps of the repairs stays bounded by the memberships found, a running call
\* always has a step to take, and every call that has entered a repair goes on
\* to return a grid or to raise
C26_Terminates == [](StripsBounded /\ StepsAdvance) /\ (Running ~> RepairReturned)

\* the outcome reached step by step is that of extract_table
C26_SameOutcome ==
  last.op = "extract_table" /\ last.returns = "table" =>
    last.out = extract_table(last.doc, last.recv, last.args.fix_element_in_multiple_rows,
                             last.args.fix_element_in_multiple_cols,
                             last.args.tolerance, last.args.order)

\* C26 case: both repairs are running and the repair of the columns follows
\* two strip steps or more
C26_Witness ==
  /\ Running
  /\ last.args.fix_element_in_multiple_rows
  /\ last.out.axis = "cols"
  /\ last.out.steps >= 2
  /\ last.out.loop.others # <<>>


\* ---------------------------------------------------------------------------
\* Properties of the state of a document (specification SpecState)
\* ---------------------------------------------------------------------------
\* C27: the state of a Document only grows: no index leaves the ignored-index
\* set, no tag leaves an element's tag set, no section is removed from or
\* replaced in the registry, and no key leaves the font cache nor does the index
\* set of a cached key change
C27_OnlyGrows ==
  [][/\ \A d \in Docs : ignored_indexes[d] \subseteq ignored_indexes'[d]
     /\ \A d \in Docs : \A i \in Indexes(d) : tags[d][i] \subseteq tags'[d][i]
     /\ \A u \in DOMAIN sections_dict :
          u \in DOMAIN sections_dict' /\ sections_dict'[u] = sections_dict[u]
     /\ \A d \in Docs : \A f \in DOMAIN element_indexes_by_font[d] :
          /\ f \in DOMAIN element_indexes_by_font'[d]
          /\ element_indexes_by_font'[d][f] = element_indexes_by_font[d][f]]_vars

\* C27 case: every part of the state has been written to: an element is
\* ignored, one is tagged, a font is cached and two sections of the same name
\* are registered
C27_Witness ==
  /\ \E d \in Docs : ignored_indexes[d] # {}
  /\ \E d \in Docs : \E i \in Indexes(d) : tags[d][i] # {}
  /\ \E d \in Docs : DOMAIN element_indexes_by_font[d] # {}
  /\ \E u \in DOMAIN sections_dict, v \in DOMAIN sections_dict :
       u # v /\ sections_dict[u].name = sections_dict[v].name

\* ---------------------------------------------------------------------------
\* Properties of the section registries (specification SpecSec)
\* ---------------------------------------------------------------------------
\* the sections created through document d
CreatedOn(d) == {sec \in sections : sec.document = d}

\* C28: section registries are per Document: the sections a Document's
\* sectioning holds are those created through it, and the first section created
\* on a Document is registered under its name followed by "_0" and is then the
\* only section the Document holds
C28_PerDocument ==
  /\ \A d \in Docs : sections = CreatedOn(d) \/ CreatedOn(d) = {}
  /\ (last.op = "create_section" /\ Cardinality(CreatedOn(last.doc)) = 1) =>
       /\ last.args.unique_name = unique_name_of(last.args.name, 0)
       /\ Cardinality(sections) = 1

\* within the sections created through one document and no other, the first
\* section of a name is registered under the name followed by "_0"
C28_OneDocument ==
  (last.op = "create_section" /\ sections = CreatedOn(last.doc)
     /\ Cardinality(CreatedOn(last.doc)) = 1) =>
       last.args.unique_name = unique_name_of(last.args.name, 0)

\* ---------------------------------------------------------------------------
\* Properties of the font filters (specification Spec)
\* ---------------------------------------------------------------------------
\* C29: whatever font filters and ignore calls came before, filter_by_fonts
\* returns the members of the receiver that are not ignored now and whose font
\* is one of those asked for, and what the cache holds for a font is what a pass
\* over the elements finds
C29_CacheTransparent ==
  /\ last.op \in FontFilters =>
       /\ last.out.err = "none"
       /\ last.out.indexes =
            {i \in last.recv : i \notin IgnoredNow /\ font(last.doc, i) \in last.args.fonts}
  /\ \A d \in Docs : \A f \in DOMAIN element_indexes_by_font[d] :
       element_indexes_by_font[d][f] = {i \in Indexes(d) : font(d, i) = f}

\* C29 case: the receiver holds an element that was ignored after the receiver
\* was built and has a font asked for, a font no element has is asked for as
\* well, and the other element of the font is returned
C29_Witness ==
  /\ last.op = "filter_by_fonts"
  /\ \E i \in last.recv \cap IgnoredNow : font(last.doc, i) \in last.args.fonts
  /\ \E f \in last.args.fonts : f \notin FontsPresent(last.doc)
  /\ last.out.indexes # {}

\* ---------------------------------------------------------------------------
\* Properties of the iteration order (specification SpecOrder)
\* ---------------------------------------------------------------------------
\* the other of the two iteration orders
OtherOrder(order) == IF order = "ascending" THEN "descending" ELSE "ascending"

\* C30: the repaired rows, the repaired columns and the outcome of extract_table
\* are the same under the other iteration order of the sets of rows and columns
C30_OrderIndependent ==
  LET d == last.doc
      S == last.recv
      other == OtherOrder(last.args.order)
  IN  /\ last.op = "_fix_rows" =>
           last.out = OkGroups(_fix_rows(d, rows_found(d, S, last.args.tolerance), S, other))
      /\ last.op = "_fix_cols" =>
           last.out = OkGroups(_fix_cols(d, cols_found(d, S, last.args.tolerance), S, other))
      /\ last.op = "extract_table" =>
           last.out = extract_table(d, S, last.args.fix_element_in_multiple_rows,
                                    last.args.fix_element_in_multiple_cols,
                                    last.args.tolerance, other)

\* without the repair flags the outcome of extract_table is the same under both
\* iteration orders
C30_NoRepair ==
  (/\ last.op = "extract_table"
   /\ ~last.args.fix_element_in_multiple_rows
   /\ ~last.args.fix_element_in_multiple_cols) =>
     last.out = extract_table(last.doc, last.recv, FALSE, FALSE, last.args.tolerance,
                              OtherOrder(last.args.order))

====
